---- MODULE Spec2Model ----
EXTENDS Integers, Sequences, FiniteSets, TLC

(***************************************************************************)
(* Model of ccls' message_handler.cc: the request/notification dispatcher  *)
(* (MessageHandler::bind, the constructor, MessageHandler::run) and the    *)
(* scan-line sweep of emitSemanticHighlight.                               *)
(***************************************************************************)

VARIABLES
  pc,            \* dispatcher: "idle", "running", "returned", "thrown", "aborted"
  msg,           \* the InMessage handed to run
  assertBuild,   \* TRUE when a second reply attempt fails loudly (assertions on)
  replies,       \* replies emitted for the message being run
  notifications, \* outbound notifications emitted while running the message
  invoked,       \* member handlers whose body was entered, in order
  thrown,        \* what propagated out of run: "none" or "NotIndexed"
  behaviour,     \* how the handler body behaves in this run, if entered
  hpc,           \* emitSemanticHighlight: "off", "collect", "done"
  lsRanges,      \* symbol.lsRanges of every grouped symbol
  collected,     \* the lsRanges as collected, before the sweep cleared them
  events,        \* the events vector (its head doubles as the stack)
  sorted,        \* the events vector as std::sort left it
  i,             \* loop index of the sweep, once the loop is over
  top,           \* stack height of the sweep, once the loop is over
  deleted,       \* the deleted flags, one per interval id
  symbols,       \* kind and id of every grouped symbol, by slot
  xref,          \* ReplyOnce::replyLocationLink: its inputs and its reply
  lookup,        \* MessageHandler::findOrFail: its inputs and its outcome
  occ,           \* one occurrence of symbol2refcnt going through the switch
  proj,          \* the offset projection and the emission of one file
  hl,            \* successive emitSemanticHighlight calls: the skip decision
  ord            \* Pos and Range values under comparison

dispVars ==
  <<pc, msg, assertBuild, replies, notifications, invoked, thrown, behaviour>>

hlVars ==
  <<hpc, lsRanges, collected, events, sorted, i, top, deleted, symbols>>

auxVars == <<xref, lookup, occ, proj, hl, ord>>

vars == <<dispVars, hlVars, auxVars>>

\* A part of the program that is not running.
Off == [pc |-> "off"]

NoAux ==
  /\ xref = Off
  /\ lookup = Off
  /\ occ = Off
  /\ proj = Off
  /\ hl = Off
  /\ ord = Off

\* ------------------------------------------------------------------ bounds
\* Request ids are 1..MaxId; NoId is the invalid id of a notification.
MaxId == 2
\* A handler body tries to reply at most MaxAttempts times.
MaxAttempts == 2

NoId == 0
RequestIds == 1..MaxId

\* ------------------------------------------------------- the method table
\* The bind calls of the constructor, in order: <<method, member handler>>.
Registrations ==
  << <<"$ccls/call", "ccls_call">>,
     <<"$ccls/fileInfo", "ccls_fileInfo">>,
     <<"$ccls/info", "ccls_info">>,
     <<"$ccls/inheritance", "ccls_inheritance">>,
     <<"$ccls/member", "ccls_member">>,
     <<"$ccls/navigate", "ccls_navigate">>,
     <<"$ccls/reload", "ccls_reload">>,
     <<"$ccls/vars", "ccls_vars">>,
     <<"exit", "exit">>,
     <<"initialize", "initialize">>,
     <<"initialized", "initialized">>,
     <<"shutdown", "shutdown">>,
     <<"textDocument/codeAction", "textDocument_codeAction">>,
     <<"textDocument/codeLens", "textDocument_codeLens">>,
     <<"textDocument/completion", "textDocument_completion">>,
     <<"textDocument/declaration", "textDocument_declaration">>,
     <<"textDocument/definition", "textDocument_definition">>,
     <<"textDocument/didChange", "textDocument_didChange">>,
     <<"textDocument/didClose", "textDocument_didClose">>,
     <<"textDocument/didOpen", "textDocument_didOpen">>,
     <<"textDocument/didSave", "textDocument_didSave">>,
     <<"textDocument/documentHighlight", "textDocument_documentHighlight">>,
     <<"textDocument/documentLink", "textDocument_documentLink">>,
     <<"textDocument/documentSymbol", "textDocument_documentSymbol">>,
     <<"textDocument/foldingRange", "textDocument_foldingRange">>,
     <<"textDocument/formatting", "textDocument_formatting">>,
     <<"textDocument/hover", "textDocument_hover">>,
     <<"textDocument/implementation", "textDocument_implementation">>,
     <<"textDocument/onTypeFormatting", "textDocument_onTypeFormatting">>,
     <<"textDocument/rangeFormatting", "textDocument_rangeFormatting">>,
     <<"textDocument/references", "textDocument_references">>,
     <<"textDocument/rename", "textDocument_rename">>,
     <<"textDocument/signatureHelp", "textDocument_signatureHelp">>,
     <<"textDocument/typeDefinition", "textDocument_typeDefinition">>,
     <<"workspace/didChangeConfiguration", "workspace_didChangeConfiguration">>,
     <<"workspace/didChangeWatchedFiles", "workspace_didChangeWatchedFiles">>,
     <<"workspace/didChangeWorkspaceFolders", "workspace_didChangeWorkspaceFolders">>,
     <<"workspace/executeCommand", "workspace_executeCommand">>,
     <<"workspace/symbol", "workspace_symbol">> >>

\* The declared parameter list of each member handler: <<handler, first
\* parameter type, takes a ReplyOnce>>.  "JsonReader" is the raw decoder.
HandlerDecls ==
  << <<"ccls_call", "JsonReader", TRUE>>,
     <<"ccls_fileInfo", "JsonReader", TRUE>>,
     <<"ccls_info", "EmptyParam", TRUE>>,
     <<"ccls_inheritance", "JsonReader", TRUE>>,
     <<"ccls_member", "JsonReader", TRUE>>,
     <<"ccls_navigate", "JsonReader", TRUE>>,
     <<"ccls_reload", "JsonReader", FALSE>>,
     <<"ccls_vars", "JsonReader", TRUE>>,
     <<"exit", "EmptyParam", FALSE>>,
     <<"initialize", "JsonReader", TRUE>>,
     <<"initialized", "EmptyParam", FALSE>>,
     <<"shutdown", "EmptyParam", TRUE>>,
     <<"textDocument_codeAction", "CodeActionParam", TRUE>>,
     <<"textDocument_codeLens", "TextDocumentParam", TRUE>>,
     <<"textDocument_completion", "CompletionParam", TRUE>>,
     <<"textDocument_declaration", "TextDocumentPositionParam", TRUE>>,
     <<"textDocument_definition", "TextDocumentPositionParam", TRUE>>,
     <<"textDocument_didChange", "TextDocumentDidChangeParam", FALSE>>,
     <<"textDocument_didClose", "TextDocumentParam", FALSE>>,
     <<"textDocument_didOpen", "DidOpenTextDocumentParam", FALSE>>,
     <<"textDocument_didSave", "TextDocumentParam", FALSE>>,
     <<"textDocument_documentHighlight", "TextDocumentPositionParam", TRUE>>,
     <<"textDocument_documentLink", "TextDocumentParam", TRUE>>,
     <<"textDocument_documentSymbol", "JsonReader", TRUE>>,
     <<"textDocument_foldingRange", "TextDocumentParam", TRUE>>,
     <<"textDocument_formatting", "DocumentFormattingParam", TRUE>>,
     <<"textDocument_hover", "TextDocumentPositionParam", TRUE>>,
     <<"textDocument_implementation", "TextDocumentPositionParam", TRUE>>,
     <<"textDocument_onTypeFormatting", "DocumentOnTypeFormattingParam", TRUE>>,
     <<"textDocument_rangeFormatting", "DocumentRangeFormattingParam", TRUE>>,
     <<"textDocument_references", "JsonReader", TRUE>>,
     <<"textDocument_rename", "RenameParam", TRUE>>,
     <<"textDocument_signatureHelp", "TextDocumentPositionParam", TRUE>>,
     <<"textDocument_typeDefinition", "TextDocumentPositionParam", TRUE>>,
     <<"workspace_didChangeConfiguration", "EmptyParam", FALSE>>,
     <<"workspace_didChangeWatchedFiles", "DidChangeWatchedFilesParam", FALSE>>,
     <<"workspace_didChangeWorkspaceFolders", "DidChangeWorkspaceFoldersParam", FALSE>>,
     <<"workspace_executeCommand", "JsonReader", TRUE>>,
     <<"workspace_symbol", "WorkspaceSymbolParam", TRUE>> >>

HandlerNames == {HandlerDecls[k][1] : k \in 1..Len(HandlerDecls)}

DeclOf(handler) ==
  LET k == CHOOSE j \in 1..Len(HandlerDecls) : HandlerDecls[j][1] = handler
  IN [param |-> HandlerDecls[k][2], reply |-> HandlerDecls[k][3]]

\* A map insertion m[key] = value, as std::unordered_map::operator[] does.
MapPut(m, key, value) ==
  [x \in (DOMAIN m) \cup {key} |-> IF x = key THEN value ELSE m[x]]

EmptyMap == [x \in {} |-> 0]

\* bind with the ReplyOnce overloads resolved as the notification ones.
bind_asNotification(tables, method, handler) ==
  [tables EXCEPT !.method2notification =
     MapPut(@, method, [handler |-> handler, param |-> DeclOf(handler).param])]

\* The four overloads of MessageHandler::bind.  Overload resolution follows
\* the handler's declared parameters; the stored closure is recorded by the
\* member handler it calls and the Param it decodes first ("JsonReader" when
\* the reader is passed through undecoded).
bind(tables, method, handler) ==
  LET d == DeclOf(handler)
      closure == [handler |-> handler, param |-> d.param]
  IN IF d.reply
     THEN [tables EXCEPT !.method2request = MapPut(@, method, closure)]
     ELSE [tables EXCEPT !.method2notification = MapPut(@, method, closure)]

RECURSIVE BindAll(_, _)
BindAll(tables, k) ==
  IF k > Len(Registrations) THEN tables
  ELSE BindAll(bind(tables, Registrations[k][1], Registrations[k][2]), k + 1)

\* MessageHandler::MessageHandler(): both tables after the constructor ran.
MessageHandler ==
  BindAll([method2request |-> EmptyMap, method2notification |-> EmptyMap], 1)

method2request == MessageHandler.method2request
method2notification == MessageHandler.method2notification

\* ------------------------------------------------------------- messages
UnknownMethod == "$unknown/method"
RegisteredMethods == {Registrations[k][1] : k \in 1..Len(Registrations)}
Methods == RegisteredMethods \cup {UnknownMethod}

\* The "params" member of the document.  WellFormed decodes against every
\* declared Param; a member of BadParams fails to decode against every
\* Param that has fields, at the recorded path, for want of the recorded type.
WellFormed == [what |-> "", path |-> ""]
BadParams == { [what |-> "string", path |-> "/textDocument/uri"],
               [what |-> "int", path |-> "/position/line"] }
Params == {WellFormed} \cup BadParams

InMessage == [id : {NoId} \cup RequestIds, method : Methods, params : Params]

\* What a member handler body does once entered: how often it replies and
\* how (a result or an error such as notOpened), whether it pushes a
\* notification of its own, and how it leaves.
Outcomes == {"return", "invalid_argument", "NotIndexed", "other"}
NoFault == CHOOSE f \in BadParams : TRUE
Behaviours ==
  { b \in [attempts : 0..MaxAttempts, kind : {"result", "error"},
           notifies : BOOLEAN, outcome : Outcomes, fault : BadParams] :
      /\ (b.attempts = 0 => b.kind = "result")
      /\ (b.outcome # "invalid_argument" => b.fault = NoFault) }

\* ----------------------------------------------------------- ReplyOnce
\* The reply channel of one request.  The first reply is sent; a second
\* attempt fails loudly when assertions are on and is ignored otherwise.
NewReplyOnce(id) == [id |-> id, sent |-> <<>>, aborted |-> FALSE]

ReplyOnce_send(reply, r, dbg) ==
  IF reply.aborted THEN reply
  ELSE IF reply.sent # <<>>
       THEN (IF dbg THEN [reply EXCEPT !.aborted = TRUE] ELSE reply)
       ELSE [reply EXCEPT !.sent = Append(@, r)]

\* ReplyOnce::error(code, message)
ReplyOnce_error(reply, code, message, by, dbg) ==
  ReplyOnce_send(reply, [id |-> reply.id, kind |-> "error", code |-> code,
                         message |-> message, by |-> by], dbg)

\* ReplyOnce::operator()(result)
ReplyOnce_result(reply, by, dbg) ==
  ReplyOnce_send(reply, [id |-> reply.id, kind |-> "result", code |-> "none",
                         message |-> <<>>, by |-> by], dbg)

\* ReplyOnce::notOpened(path)
notOpened(reply, path, by, dbg) ==
  ReplyOnce_error(reply, "InvalidRequest", <<path, " is not opened">>, by, dbg)

\* ------------------------------------------------------ handler bodies
RECURSIVE Attempts(_, _, _, _)
Attempts(reply, n, kind, dbg) ==
  IF n = 0 THEN reply
  ELSE Attempts(IF kind = "result"
                THEN ReplyOnce_result(reply, "handler", dbg)
                ELSE notOpened(reply, "a.cc", "handler", dbg),
                n - 1, kind, dbg)

HandlerNote == [method |-> "$ccls/publishSemanticHighlight", type |-> "none",
                message |-> <<>>]

\* A member handler taking (Param/JsonReader, ReplyOnce): the body runs as
\* beh says.  A loud second reply ends the process inside the body.
RequestBody(handler, reply, beh, dbg) ==
  LET after == Attempts(reply, beh.attempts, beh.kind, dbg)
  IN [reply |-> after,
      invoked |-> <<handler>>,
      notes |-> IF beh.notifies THEN <<HandlerNote>> ELSE <<>>,
      raise |-> IF after.aborted THEN "abort"
                ELSE IF beh.outcome = "return" THEN "none" ELSE beh.outcome,
      fault |-> beh.fault]

\* A member handler taking (Param/JsonReader) only.
NotificationBody(handler, beh) ==
  [invoked |-> <<handler>>,
   notes |-> IF beh.notifies THEN <<HandlerNote>> ELSE <<>>,
   raise |-> IF beh.outcome = "return" THEN "none" ELSE beh.outcome,
   fault |-> beh.fault]

\* --------------------------------------------------------------- reflect
\* reflect(JsonReader &, EmptyParam &) {} reads nothing and cannot fail.
reflectEmpty(params) == WellFormed

\* REFLECT_STRUCT decoding of a Param with fields: fails with the expected
\* type name, the reader stopped at the failing path.
reflectStruct(params) == params

reflect(param, params) ==
  IF param = "EmptyParam" THEN reflectEmpty(params) ELSE reflectStruct(params)

\* ------------------------------------------------------ bound closures
\* The closure stored by bind for a (…, ReplyOnce &) handler.
requestClosure(closure, m, reply, beh, dbg) ==
  IF closure.param = "JsonReader"
  THEN RequestBody(closure.handler, reply, beh, dbg)
  ELSE LET decoded == reflect(closure.param, m.params)
       IN IF decoded # WellFormed
          THEN [reply |-> reply, invoked |-> <<>>, notes |-> <<>>,
                raise |-> "invalid_argument", fault |-> decoded]
          ELSE RequestBody(closure.handler, reply, beh, dbg)

\* The closure stored by bind for a handler without ReplyOnce.
notificationClosure(closure, m, beh) ==
  IF closure.param = "JsonReader"
  THEN NotificationBody(closure.handler, beh)
  ELSE LET decoded == reflect(closure.param, m.params)
       IN IF decoded # WellFormed
          THEN [invoked |-> <<>>, notes |-> <<>>,
                raise |-> "invalid_argument", fault |-> decoded]
          ELSE NotificationBody(closure.handler, beh)

\* ------------------------------------------------------ MessageHandler::run
\* The InvalidParams reply without reader.getPath().
catchInvalidArgument_noPath(reply, m, fault, dbg) ==
  [reply |-> ReplyOnce_error(reply, "InvalidParams",
                             <<"invalid params of ", m.method, ": expected ",
                               fault.what>>, "run", dbg),
   exit |-> "returned"]

\* catch (std::invalid_argument &ex): reply InvalidParams, run returns.
catchInvalidArgument(reply, m, fault, dbg) ==
  [reply |-> ReplyOnce_error(reply, "InvalidParams",
                             <<"invalid params of ", m.method, ": expected ",
                               fault.what, " for ", fault.path>>, "run", dbg),
   exit |-> "returned"]

\* A catch (...) that swallows the failure without replying.
catchAny_swallow(reply, m, dbg) ==
  [reply |-> reply, exit |-> "returned"]

\* catch (...) of the request branch: reply InternalError, run returns.
catchAny(reply, m, dbg) ==
  [reply |-> ReplyOnce_error(reply, "InternalError",
                             <<"failed to process ", m.method>>, "run", dbg),
   exit |-> "returned"]

\* NotIndexed handled like any other failure (no rethrow).
catchNotIndexed_asInternalError(reply, m, dbg) ==
  [reply |-> ReplyOnce_error(reply, "InternalError",
                             <<"failed to process ", m.method>>, "run", dbg),
   exit |-> "returned"]

\* catch (NotIndexed &) { throw; }
catchNotIndexed(reply, m, dbg) ==
  [reply |-> reply, exit |-> "NotIndexed"]

\* An unknown request dropped as an unknown notification is.
unknownRequest_silent(reply, m, dbg) == reply

\* the else branch of the request lookup
unknownRequest(reply, m, dbg) ==
  ReplyOnce_error(reply, "MethodNotFound", <<"unknown request ", m.method>>,
                  "run", dbg)

\* ShowMessageParam{MessageType::Error, "failed to process " + method}
showMessage(m) ==
  [method |-> "window/showMessage", type |-> "Error",
   message |-> <<"failed to process ", m.method>>]

\* What run leaves behind; a loud second reply ends the process.
Effect(reply, notes, inv, exit) ==
  [replies |-> reply.sent, notifications |-> notes, invoked |-> inv,
   exit |-> IF reply.aborted THEN "aborted" ELSE exit]

\* The branch taken when msg.id.valid().
runRequest(m, b, dbg) ==
  LET reply == NewReplyOnce(m.id)
  IN IF m.method \in DOMAIN method2request
     THEN LET r == requestClosure(method2request[m.method], m, reply, b, dbg)
              c == CASE r.raise = "none" ->
                          [reply |-> r.reply, exit |-> "returned"]
                     [] r.raise = "abort" ->
                          [reply |-> r.reply, exit |-> "aborted"]
                     [] r.raise = "invalid_argument" ->
                          catchInvalidArgument(r.reply, m, r.fault, dbg)
                     [] r.raise = "NotIndexed" ->
                          catchNotIndexed(r.reply, m, dbg)
                     [] OTHER -> catchAny(r.reply, m, dbg)
          IN Effect(c.reply, r.notes, r.invoked, c.exit)
     ELSE Effect(unknownRequest(reply, m, dbg), <<>>, <<>>, "returned")

\* A notification boundary that lets NotIndexed through, as the request
\* boundary does.
catchNotification_rethrow(r, m) ==
  IF r.raise = "NotIndexed"
  THEN [replies |-> <<>>, notifications |-> r.notes, invoked |-> r.invoked,
        exit |-> "NotIndexed"]
  ELSE [replies |-> <<>>, notifications |-> Append(r.notes, showMessage(m)),
        invoked |-> r.invoked, exit |-> "returned"]

\* catch (...) of the notification branch: show a message, run returns.
catchNotification(r, m) ==
  [replies |-> <<>>, notifications |-> Append(r.notes, showMessage(m)),
   invoked |-> r.invoked, exit |-> "returned"]

\* An unknown notification reported to the user.
unknownNotification_shown(m) ==
  [replies |-> <<>>, notifications |-> <<showMessage(m)>>, invoked |-> <<>>,
   exit |-> "returned"]

\* A notification whose method is not in method2notification: no branch runs.
unknownNotification(m) ==
  [replies |-> <<>>, notifications |-> <<>>, invoked |-> <<>>,
   exit |-> "returned"]

\* The branch taken when the message carries no id.
runNotification(m, b) ==
  IF m.method \in DOMAIN method2notification
  THEN LET r == notificationClosure(method2notification[m.method], m, b)
       IN IF r.raise = "none"
          THEN [replies |-> <<>>, notifications |-> r.notes,
                invoked |-> r.invoked, exit |-> "returned"]
          ELSE catchNotification(r, m)
  ELSE unknownNotification(m)

run(m, b, dbg) ==
  IF m.id # NoId THEN runRequest(m, b, dbg) ELSE runNotification(m, b)

\* ------------------------------------------------------------- dispatcher
NoMessage == [id |-> NoId, method |-> UnknownMethod, params |-> WellFormed]
NoBehaviour ==
  [attempts |-> 0, kind |-> "result", notifies |-> FALSE, outcome |-> "return",
   fault |-> NoFault]

\* No highlight computation is in progress.
NoHighlight ==
  /\ hpc = "off"
  /\ lsRanges = <<>>
  /\ collected = <<>>
  /\ events = <<>>
  /\ sorted = <<>>
  /\ i = 0
  /\ top = 0
  /\ deleted = <<>>
  /\ symbols = <<>>

Init ==
  /\ pc = "idle"
  /\ msg = NoMessage
  /\ assertBuild \in BOOLEAN
  /\ replies = <<>>
  /\ notifications = <<>>
  /\ invoked = <<>>
  /\ thrown = "none"
  /\ behaviour = NoBehaviour
  /\ NoHighlight
  /\ NoAux

\* The transport hands the next message to the dispatcher.
Receive ==
  /\ pc = "idle"
  /\ \E m \in InMessage : msg' = m
  /\ pc' = "running"
  /\ UNCHANGED <<assertBuild, replies, notifications, invoked, thrown, behaviour>>
  /\ UNCHANGED hlVars
  /\ UNCHANGED auxVars

\* MessageHandler::run(msg), the bound handler included.
Run ==
  /\ pc = "running"
  /\ \E b \in Behaviours :
       LET e == run(msg, b, assertBuild)
       IN /\ behaviour' = b
          /\ replies' = e.replies
          /\ notifications' = e.notifications
          /\ invoked' = e.invoked
          /\ thrown' = IF e.exit = "NotIndexed" THEN "NotIndexed" ELSE "none"
          /\ pc' = CASE e.exit = "returned" -> "returned"
                     [] e.exit = "NotIndexed" -> "thrown"
                     [] OTHER -> "aborted"
  /\ UNCHANGED <<msg, assertBuild>>
  /\ UNCHANGED hlVars
  /\ UNCHANGED auxVars

\* run is over (it returned, or its caller caught NotIndexed and set the
\* message aside); the main loop waits for the next message.
Finish ==
  /\ pc \in {"returned", "thrown"}
  /\ pc' = "idle"
  /\ msg' = NoMessage
  /\ replies' = <<>>
  /\ notifications' = <<>>
  /\ invoked' = <<>>
  /\ thrown' = "none"
  /\ behaviour' = NoBehaviour
  /\ UNCHANGED assertBuild
  /\ UNCHANGED hlVars
  /\ UNCHANGED auxVars

Next == Receive \/ Run \/ Finish

Spec == Init /\ [][Next]_vars

\* =================================================== dispatcher claims
\* run is over for the current message.
Done == pc \in {"returned", "thrown", "aborted"}
IsRequest == msg.id # NoId
IsNotification == msg.id = NoId

\* The member handler the constructor's (last) bind call names for method.
HandlerFor(method) ==
  LET k == CHOOSE j \in 1..Len(Registrations) :
             /\ Registrations[j][1] = method
             /\ \A l \in (j + 1)..Len(Registrations) : Registrations[l][1] # method
  IN Registrations[k][2]

RequestMethods == {m \in RegisteredMethods : DeclOf(HandlerFor(m)).reply}
NotificationMethods == {m \in RegisteredMethods : ~DeclOf(HandlerFor(m)).reply}

\* The message's params fail to decode against the Param declared for its
\* method (a Param with fields; the raw reader and EmptyParam decode nothing).
DecodeFails ==
  /\ msg.method \in RegisteredMethods
  /\ DeclOf(HandlerFor(msg.method)).param \notin {"JsonReader", "EmptyParam"}
  /\ msg.params \in BadParams

Contains(message, part) == \E k \in 1..Len(message) : message[k] = part

ShowMessages == {k \in 1..Len(notifications) :
                   notifications[k].method = "window/showMessage"}

\* C1 as stated: every message with a valid id gets exactly one reply for
\* that id from run, whatever the bound handler does.
C1_ExactlyOneReply ==
  (Done /\ IsRequest) => (Len(replies) = 1 /\ replies[1].id = msg.id)

\* C1 amended: a message with a valid id never gets more than one reply, every
\* reply carries its id, and it gets exactly one unless the handler body was
\* entered, made no reply itself and either returned or raised NotIndexed;
\* in those two cases run emits none.
C1_AtMostOneReply ==
  (Done /\ IsRequest) =>
     /\ Len(replies) <= 1
     /\ \A k \in 1..Len(replies) : replies[k].id = msg.id
     /\ (Len(replies) = 0) <=>
          (/\ invoked # <<>>
           /\ behaviour.attempts = 0
           /\ behaviour.outcome \in {"return", "NotIndexed"})

\* C1 witness: the handler replied and then raised; one reply stands.
C1_Witness ==
  /\ pc = "returned" /\ IsRequest /\ invoked # <<>>
  /\ behaviour.attempts = 1 /\ behaviour.outcome = "other"
  /\ Len(replies) = 1 /\ replies[1].by = "handler"

\* C2: when the request handler raises NotIndexed, run itself emits no reply
\* (the only replies are those the handler sent before raising) and
\* NotIndexed leaves run; nothing else ever leaves run by exception.
C2_NotIndexedPropagates ==
  /\ (Done /\ pc # "aborted" /\ IsRequest /\ invoked # <<>>
        /\ behaviour.outcome = "NotIndexed") =>
       /\ pc = "thrown" /\ thrown = "NotIndexed"
       /\ \A k \in 1..Len(replies) : replies[k].by = "handler"
       /\ Len(replies) = (IF behaviour.attempts = 0 THEN 0 ELSE 1)
  /\ (pc = "thrown") =>
       (IsRequest /\ invoked # <<>> /\ behaviour.outcome = "NotIndexed")

\* C2 witness: NotIndexed raised before any reply left run, no reply emitted.
C2_Witness ==
  /\ pc = "thrown" /\ thrown = "NotIndexed" /\ IsRequest
  /\ behaviour.attempts = 0 /\ replies = <<>>

\* C3: a message with a valid id whose method is not in the request table
\* (unknown, or bound only as a notification) gets a MethodNotFound error
\* reply and no handler of either table is entered.
C3_MethodNotFound ==
  (Done /\ IsRequest /\ msg.method \notin RequestMethods) =>
     /\ pc = "returned"
     /\ Len(replies) = 1
     /\ replies[1].kind = "error" /\ replies[1].code = "MethodNotFound"
     /\ replies[1].id = msg.id
     /\ invoked = <<>>

\* C3 witness: a request for a method bound only as a notification.
C3_Witness ==
  /\ pc = "returned" /\ IsRequest /\ msg.method = "textDocument/didOpen"
  /\ Len(replies) = 1 /\ replies[1].code = "MethodNotFound" /\ invoked = <<>>

\* C4: a request for a method bound with a typed Param whose params fail to
\* decode gets an InvalidParams error whose message holds the expected type
\* name and the path of the failure; the member handler body is not entered.
C4_InvalidParams ==
  (Done /\ IsRequest /\ msg.method \in RequestMethods /\ DecodeFails) =>
     /\ pc = "returned"
     /\ Len(replies) = 1
     /\ replies[1].kind = "error" /\ replies[1].code = "InvalidParams"
     /\ replies[1].id = msg.id
     /\ Contains(replies[1].message, msg.params.what)
     /\ Contains(replies[1].message, msg.params.path)
     /\ Contains(replies[1].message, msg.method)
     /\ invoked = <<>>

\* C4 witness: textDocument/hover with params that fail at /position/line.
C4_Witness ==
  /\ pc = "returned" /\ IsRequest /\ msg.method = "textDocument/hover"
  /\ msg.params = [what |-> "int", path |-> "/position/line"]
  /\ Len(replies) = 1 /\ replies[1].code = "InvalidParams" /\ invoked = <<>>

\* C5: one well-formed message of the matching kind for a registered method
\* (with id for a request handler, without for a notification handler)
\* enters the handler bound to that method exactly once and no other.
C5_ExactlyTheBoundHandler ==
  (/\ Done
   /\ msg.params = WellFormed
   /\ \/ IsRequest /\ msg.method \in RequestMethods
      \/ IsNotification /\ msg.method \in NotificationMethods) =>
     invoked = <<HandlerFor(msg.method)>>

\* C5 witness: a typed notification and its handler.
C5_Witness ==
  /\ pc = "returned" /\ IsNotification /\ msg.params = WellFormed
  /\ msg.method = "textDocument/didChange"
  /\ invoked = <<"textDocument_didChange">>

\* The run of a notification failed: its params did not decode, or the
\* handler body raised.
NotificationFailed ==
  \/ DecodeFails
  \/ (~DecodeFails /\ behaviour.outcome # "return")

\* C6: a failure in a registered notification's handler (decode failure,
\* NotIndexed or any other) does not leave run, produces no reply and
\* produces exactly one show-message notification of Error severity that
\* names the method.
C6_NotificationFailure ==
  (Done /\ IsNotification /\ msg.method \in NotificationMethods
     /\ NotificationFailed) =>
     /\ pc = "returned" /\ thrown = "none"
     /\ replies = <<>>
     /\ Cardinality(ShowMessages) = 1
     /\ \A k \in ShowMessages :
          /\ notifications[k].type = "Error"
          /\ Contains(notifications[k].message, msg.method)

\* C6 witness: a notification handler raised NotIndexed.
C6_Witness ==
  /\ pc = "returned" /\ IsNotification /\ invoked # <<>>
  /\ behaviour.outcome = "NotIndexed"
  /\ Cardinality(ShowMessages) = 1

\* C7: a message without id whose method is not in the notification table
\* (unknown, or bound only as a request) enters no handler, produces no
\* reply and no notification, and run returns normally.
C7_UnknownNotificationDropped ==
  (Done /\ IsNotification /\ msg.method \notin NotificationMethods) =>
     /\ pc = "returned" /\ thrown = "none"
     /\ invoked = <<>>
     /\ replies = <<>>
     /\ notifications = <<>>

\* C7 witness: a notification for a method bound only as a request.
C7_Witness ==
  /\ pc = "returned" /\ IsNotification /\ msg.method = "textDocument/hover"
  /\ invoked = <<>> /\ replies = <<>> /\ notifications = <<>>

\* ======================================= emitSemanticHighlight: the sweep
\* At most MaxRanges display ranges are collected for one file.
MaxRanges == 3
\* The columns at which a collected range starts or ends (one line, line 0).
Columns == {0, 4, 6, 8, 10}

\* SymbolKind::Macro, the greatest SymbolKind.
Macro == 255

\* The grouped symbols of one file, one slot per SymbolIdx: the Kind of the
\* key, and the kind and id (index into db->types / vars / funcs) stored in
\* the CclsSemanticHighlightSymbol.
SymbolTable ==
  << [Kind |-> "Type", kind |-> 5, id |-> 0],
     [Kind |-> "Var", kind |-> Macro, id |-> 0],
     [Kind |-> "Func", kind |-> 12, id |-> 0] >>
Slots == 1..Len(symbols)

\* lsPosition and lsRange
Position(line, character) == [line |-> line, character |-> character]
PosEq(a, b) == a.line = b.line /\ a.character = b.character
PosLess(a, b) ==
  IF a.line # b.line THEN a.line < b.line ELSE a.character < b.character
lsRange(start, end) == [start |-> start, end |-> end]

\* The ranges getLsRange can give on the line: start before end.
LsRanges ==
  { lsRange(Position(0, a), Position(0, b)) : a, b \in Columns } \cap
  { r \in [start : [line : {0}, character : Columns],
           end : [line : {0}, character : Columns]] : PosLess(r.start, r.end) }

\* Range order (start, then end), the order in which this model walks
\* symbol2refcnt.
RangeLeq(r1, r2) ==
  IF ~PosEq(r1.start, r2.start) THEN PosLess(r1.start, r2.start)
  ELSE ~PosLess(r2.end, r1.end)

\* ScanLineEvent::operator< with end_pos compared the other way round.
EventLess_endAscending(a, b) ==
  IF ~PosEq(a.pos, b.pos) THEN PosLess(a.pos, b.pos)
  ELSE IF ~PosEq(b.end_pos, a.end_pos) THEN PosLess(a.end_pos, b.end_pos)
  ELSE IF symbols[a.symbol].kind # symbols[b.symbol].kind
       THEN symbols[a.symbol].kind < symbols[b.symbol].kind
  ELSE symbols[a.symbol].id < symbols[b.symbol].id

\* ScanLineEvent::operator< with the kinds compared the other way round.
EventLess_kindDescending(a, b) ==
  IF ~PosEq(a.pos, b.pos) THEN PosLess(a.pos, b.pos)
  ELSE IF ~PosEq(b.end_pos, a.end_pos) THEN PosLess(b.end_pos, a.end_pos)
  ELSE IF symbols[a.symbol].kind # symbols[b.symbol].kind
       THEN symbols[b.symbol].kind < symbols[a.symbol].kind
  ELSE symbols[a.symbol].id < symbols[b.symbol].id

\* ScanLineEvent::operator<
EventLess(a, b) ==
  IF ~PosEq(a.pos, b.pos) THEN PosLess(a.pos, b.pos)
  ELSE IF ~PosEq(b.end_pos, a.end_pos) THEN PosLess(b.end_pos, a.end_pos)
  ELSE IF symbols[a.symbol].kind # symbols[b.symbol].kind
       THEN symbols[a.symbol].kind < symbols[b.symbol].kind
  ELSE symbols[a.symbol].id < symbols[b.symbol].id

\* std::sort(events.begin(), events.end()): any arrangement in which no
\* event is less than one before it (the order of equivalent events is
\* whatever the sort leaves).
RECURSIVE Sorts(_)
Sorts(S) ==
  IF S = {} THEN {<<>>}
  ELSE UNION { { <<e>> \o t : t \in Sorts(S \ {e}) } :
               e \in { m \in S : \A o \in S : ~EventLess(o, m) } }

\* The collected ranges in the order the event loop meets them: symbol by
\* symbol, and within a symbol in lsRanges order.
RECURSIVE Flatten(_, _)
Flatten(ranges, s) ==
  IF s > Len(symbols) THEN <<>>
  ELSE [k \in 1..Len(ranges[s]) |-> [symbol |-> s, loc |-> ranges[s][k]]]
       \o Flatten(ranges, s + 1)

\* ~id
Compl(id) == -id - 1

\* The two events pushed for every collected range, ids counting from 0.
EventsOf(ranges) ==
  LET flat == Flatten(ranges, 1)
  IN UNION { { [pos |-> flat[k].loc.start, end_pos |-> flat[k].loc.end,
                id |-> k - 1, symbol |-> flat[k].symbol],
               [pos |-> flat[k].loc.end, end_pos |-> flat[k].loc.end,
                id |-> Compl(k - 1), symbol |-> flat[k].symbol] } :
             k \in 1..Len(flat) }

RECURSIVE CountFrom(_, _)
CountFrom(ranges, s) ==
  IF s > Len(symbols) THEN 0 ELSE Len(ranges[s]) + CountFrom(ranges, s + 1)

\* The number of collected ranges, the final value of the id counter.
NumRanges(ranges) == CountFrom(ranges, 1)

\* The stack never shrinks.
PopDeleted_never(ev, t, del) == t

\* while (top && deleted[events[top - 1].id]) top--;
RECURSIVE PopDeleted(_, _, _)
PopDeleted(ev, t, del) ==
  IF t > 0 /\ del[ev[t].id + 1] = 1 THEN PopDeleted(ev, t - 1, del) ELSE t

\* ---------------------------------------------------------------- actions
HLInit ==
  /\ pc = "idle"
  /\ msg = NoMessage
  /\ assertBuild = FALSE
  /\ replies = <<>>
  /\ notifications = <<>>
  /\ invoked = <<>>
  /\ thrown = "none"
  /\ behaviour = NoBehaviour
  /\ symbols = SymbolTable
  /\ hpc = "collect"
  /\ lsRanges = [s \in Slots |-> <<>>]
  /\ collected = [s \in Slots |-> <<>>]
  /\ events = <<>>
  /\ sorted = <<>>
  /\ i = 0
  /\ top = 0
  /\ deleted = <<>>
  /\ NoAux

\* One more occurrence of symbol s survives the filters and its range loc is
\* pushed onto the symbol's lsRanges.
AddRange ==
  /\ hpc = "collect"
  /\ NumRanges(lsRanges) < MaxRanges
  /\ \E s \in Slots, loc \in LsRanges :
       /\ \A t \in Slots : t > s => lsRanges[t] = <<>>
       /\ lsRanges[s] # <<>> => RangeLeq(lsRanges[s][Len(lsRanges[s])], loc)
       /\ lsRanges' = [lsRanges EXCEPT ![s] = Append(@, loc)]
  /\ UNCHANGED <<collected, events, sorted, i, top, deleted, hpc, symbols>>
  /\ UNCHANGED dispVars
  /\ UNCHANGED auxVars

\* An iteration that pushes every event, deletion events included.
SweepIter_pushAll(st) ==
  LET t == PopDeleted(st.events, st.top, st.deleted)
      cur == st.events[st.i + 1]
      emitted ==
        IF t > 0 /\ ~PosEq(st.events[st.i].pos, cur.pos)
        THEN [st.lsRanges EXCEPT ![st.events[t].symbol] =
                Append(@, lsRange(st.events[st.i].pos, cur.pos))]
        ELSE st.lsRanges
  IN [events |-> [st.events EXCEPT ![t + 1] = cur],
      i |-> st.i + 1, top |-> t + 1, deleted |-> st.deleted,
      lsRanges |-> emitted]

\* One iteration of the sweep loop, for events[i] (st.events[st.i + 1] here,
\* where sequences count from 1), on the loop's state st.
SweepIter(st) ==
  LET t == PopDeleted(st.events, st.top, st.deleted)
      cur == st.events[st.i + 1]
      emitted ==
        IF t > 0 /\ ~PosEq(st.events[st.i].pos, cur.pos)
        THEN [st.lsRanges EXCEPT ![st.events[t].symbol] =
                Append(@, lsRange(st.events[st.i].pos, cur.pos))]
        ELSE st.lsRanges
  IN IF cur.id >= 0
     THEN [events |-> [st.events EXCEPT ![t + 1] = cur],
           i |-> st.i + 1, top |-> t + 1, deleted |-> st.deleted,
           lsRanges |-> emitted]
     ELSE [events |-> st.events,
           i |-> st.i + 1, top |-> t,
           deleted |-> [st.deleted EXCEPT ![Compl(cur.id) + 1] = 1],
           lsRanges |-> emitted]

\* for (size_t i = 0; i < events.size(); i++) ...
RECURSIVE SweepLoop(_)
SweepLoop(st) ==
  IF st.i < Len(st.events) THEN SweepLoop(SweepIter(st)) ELSE st

\* "Make ranges non-overlapping using a scan line algorithm": the events are
\* built, every symbol's lsRanges cleared, the events sorted, the deleted
\* flags zeroed and the loop run to its end.
ScanLine ==
  /\ hpc = "collect"
  /\ \E srt \in Sorts(EventsOf(lsRanges)) :
       \E fin \in {SweepLoop([events |-> srt, i |-> 0, top |-> 0,
                             deleted |-> [k \in 1..NumRanges(lsRanges) |-> 0],
                             lsRanges |-> [s \in Slots |-> <<>>]])} :
          /\ sorted' = srt
          /\ events' = fin.events
          /\ i' = fin.i
          /\ top' = fin.top
          /\ deleted' = fin.deleted
          /\ lsRanges' = fin.lsRanges
  /\ collected' = lsRanges
  /\ hpc' = "done"
  /\ UNCHANGED symbols
  /\ UNCHANGED dispVars
  /\ UNCHANGED auxVars

HLNext == AddRange \/ ScanLine

SpecHL == HLInit /\ [][HLNext]_vars

\* ======================================================== sweep claims
MaxColumn == CHOOSE m \in Columns : \A c \in Columns : c <= m
\* The cells of the line: every range starts and ends at one of Columns, so
\* the line falls into the cells [c, next column), each named by its start c.
Cells == Columns \ {MaxColumn}

\* Cell c lies in the half-open range r.
InRange(c, r) ==
  /\ ~PosLess(Position(0, c), r.start)
  /\ PosLess(Position(0, c), r.end)

\* The collected (input) ranges and the emitted (output) ranges, each with
\* its symbol slot and its place in that symbol's list.
Inputs ==
  UNION { { [symbol |-> s, k |-> k, range |-> collected[s][k]] :
            k \in 1..Len(collected[s]) } : s \in Slots }
Outputs ==
  UNION { { [symbol |-> s, k |-> k, range |-> lsRanges[s][k]] :
            k \in 1..Len(lsRanges[s]) } : s \in Slots }

\* The cells some range of the set rs covers.
Covered(rs) == {c \in Cells : \E x \in rs : InRange(c, x.range)}

\* The symbols owning cell c in the set rs.
Owners(c, rs) == {x.symbol : x \in {y \in rs : InRange(c, y.range)}}

\* C8 (scan-line partition): after the sweep every output range is non-empty,
\* starts and ends where some input range starts or ends and lies within the
\* union of the input ranges, no two output ranges overlap (same symbol or
\* not), and every cell covered by an input range is covered by an output
\* range.
C8_Partition ==
  (hpc = "done") =>
     \A ins \in {Inputs}, outs \in {Outputs} :
       /\ \A o \in outs : PosLess(o.range.start, o.range.end)
       /\ \A o \in outs :
            /\ \E x \in ins : PosEq(o.range.start, x.range.start)
                                \/ PosEq(o.range.start, x.range.end)
            /\ \E x \in ins : PosEq(o.range.end, x.range.start)
                                \/ PosEq(o.range.end, x.range.end)
       /\ Covered(outs) = Covered(ins)
       /\ \A o1, o2 \in outs : o1 # o2 =>
            ~\E c \in Cells : InRange(c, o1.range) /\ InRange(c, o2.range)

\* C8 witness: [0,6) of one symbol and [4,8) of another overlap partially;
\* the sweep leaves [0,4) to the first and [4,6), [6,8) to the second.
C8_Witness ==
  /\ hpc = "done"
  /\ collected[1] = <<lsRange(Position(0, 0), Position(0, 6))>>
  /\ collected[2] = <<lsRange(Position(0, 4), Position(0, 8))>>
  /\ collected[3] = <<>>
  /\ lsRanges[1] = <<lsRange(Position(0, 0), Position(0, 4))>>
  /\ lsRanges[2] = <<lsRange(Position(0, 4), Position(0, 6)),
                     lsRange(Position(0, 6), Position(0, 8))>>

\* The open events of the sorted vector that are open over the whole of r.
OpenOver(r) ==
  { j \in 1..Len(sorted) :
      /\ sorted[j].id >= 0
      /\ ~PosLess(r.start, sorted[j].pos)
      /\ ~PosLess(sorted[j].end_pos, r.end) }

Last(S) == CHOOSE j \in S : \A k \in S : k <= j

\* The innermost ranges of rs over cell c: latest start and, among those,
\* earliest end.
Innermost(c, rs) ==
  { x \in rs :
      /\ InRange(c, x.range)
      /\ \A y \in rs : InRange(c, y.range) =>
           /\ ~PosLess(x.range.start, y.range.start)
           /\ (PosEq(x.range.start, y.range.start) =>
                 ~PosLess(y.range.end, x.range.end)) }

\* Any two ranges of rs are disjoint or one contains the other.
ProperlyNested(rs) ==
  \A x, y \in rs :
    \/ ~PosLess(x.range.start, y.range.end)
    \/ ~PosLess(y.range.start, x.range.end)
    \/ (~PosLess(y.range.start, x.range.start)
          /\ ~PosLess(x.range.end, y.range.end))
    \/ (~PosLess(x.range.start, y.range.start)
          /\ ~PosLess(y.range.end, x.range.end))

\* The nesting scenario: A = [0,10), B = [0,4), C = [6,8).
ScenarioInput ==
  /\ collected[1] = <<lsRange(Position(0, 0), Position(0, 10))>>
  /\ collected[2] = <<lsRange(Position(0, 0), Position(0, 4))>>
  /\ collected[3] = <<lsRange(Position(0, 6), Position(0, 8))>>

ScenarioOutput ==
  /\ lsRanges[1] = <<lsRange(Position(0, 4), Position(0, 6)),
                     lsRange(Position(0, 8), Position(0, 10))>>
  /\ lsRanges[2] = <<lsRange(Position(0, 0), Position(0, 4))>>
  /\ lsRanges[3] = <<lsRange(Position(0, 6), Position(0, 8))>>

IsMacro(s) == SymbolTable[s].kind = Macro

\* A macro and an ordinary symbol share the innermost range of rs over c.
SharedWithMacro(c, rs) ==
  \A inner \in {Innermost(c, rs)} :
    /\ \E x \in inner : IsMacro(x.symbol)
    /\ \E x \in inner : ~IsMacro(x.symbol)

\* The macro's events come after the other symbol's events of the same range.
MacroEventsLast ==
  \A j, k \in 1..Len(sorted) :
    (/\ IsMacro(sorted[j].symbol) /\ ~IsMacro(sorted[k].symbol)
     /\ PosEq(sorted[j].pos, sorted[k].pos)
     /\ PosEq(sorted[j].end_pos, sorted[k].end_pos)) => k < j

\* C10 as stated: the macro's events are ordered after the other symbol's and
\* the span a macro shares with an ordinary symbol goes to the ordinary one.
C10_MacroNeverOverrides ==
  (hpc = "done") =>
     \A ins \in {Inputs}, outs \in {Outputs} :
       /\ MacroEventsLast
       /\ \A c \in Cells : SharedWithMacro(c, ins) =>
            \A own \in {Owners(c, outs)} :
              own # {} /\ \A s \in own : ~IsMacro(s)

\* C10 amended: the macro's events are ordered after the other symbol's and
\* the span a macro shares with an ordinary symbol goes to the macro.
C10_MacroOverrides ==
  (hpc = "done") =>
     \A ins \in {Inputs}, outs \in {Outputs} :
       /\ MacroEventsLast
       /\ \A c \in Cells : SharedWithMacro(c, ins) =>
            \A own \in {Owners(c, outs)} :
              own # {} /\ \A s \in own : IsMacro(s)

\* C10 witness: a type and a macro both collected [4,8); the macro has it.
C10_Witness ==
  /\ hpc = "done"
  /\ collected[1] = <<lsRange(Position(0, 4), Position(0, 8))>>
  /\ collected[2] = <<lsRange(Position(0, 4), Position(0, 8))>>
  /\ collected[3] = <<>>
  /\ lsRanges[2] = <<lsRange(Position(0, 4), Position(0, 8))>>
  /\ lsRanges[1] = <<>>

\* =============================== ReplyOnce::replyLocationLink (lines 104-117)
\* A call is given at most MaxCand candidates; xref.maxNum is at most MaxNum.
MaxCand == 5
MaxNum == 3

\* The parts of the program other than replyLocationLink.
xrefRest == <<dispVars, hlVars, lookup, occ, proj, hl, ord>>

\* The dispatcher is idle.
NoDispatch ==
  /\ pc = "idle"
  /\ msg = NoMessage
  /\ assertBuild = FALSE
  /\ replies = <<>>
  /\ notifications = <<>>
  /\ invoked = <<>>
  /\ thrown = "none"
  /\ behaviour = NoBehaviour

\* LocationLink: target uri, target range and target selection range (ranges
\* stand as numbers ordered like lsRange).
LocationLink(uri, range, sel) ==
  [targetUri |-> uri, targetRange |-> range, targetSelectionRange |-> sel]

\* The links a candidate list is made of.
Links ==
  { LocationLink("a.cc", 1, 1), LocationLink("a.cc", 2, 1),
    LocationLink("a.cc", 2, 2), LocationLink("b.cc", 1, 1) }

\* The order of two uris (std::string operator<).
UriLess(u, v) == u = "a.cc" /\ v = "b.cc"

\* LocationLink::operator== : every member equal.
LinkEq(a, b) ==
  /\ a.targetUri = b.targetUri
  /\ a.targetRange = b.targetRange
  /\ a.targetSelectionRange = b.targetSelectionRange

\* LocationLink::operator< : the natural order, member by member.
LinkLess(a, b) ==
  IF a.targetUri # b.targetUri THEN UriLess(a.targetUri, b.targetUri)
  ELSE IF a.targetRange # b.targetRange THEN a.targetRange < b.targetRange
  ELSE a.targetSelectionRange < b.targetSelectionRange

\* Location(LocationLink &&): the uri and one range; nothing else.
Location(link) ==
  [uri |-> link.targetUri, range |-> link.targetSelectionRange]

\* x put into the sorted sequence q, after the elements not greater than it.
RECURSIVE InsertLink(_, _)
InsertLink(x, q) ==
  IF q = <<>> THEN <<x>>
  ELSE IF LinkLess(x, Head(q)) THEN <<x>> \o q
  ELSE <<Head(q)>> \o InsertLink(x, Tail(q))

\* std::sort(result.begin(), result.end())
RECURSIVE SortLinks(_)
SortLinks(q) ==
  IF q = <<>> THEN <<>> ELSE InsertLink(Head(q), SortLinks(Tail(q)))

\* std::unique + erase: of every run of equal neighbours the first is kept.
RECURSIVE Unique(_)
Unique(q) ==
  IF Len(q) <= 1 THEN q
  ELSE IF LinkEq(q[1], q[2]) THEN Unique(Tail(q))
  ELSE <<Head(q)>> \o Unique(Tail(q))

\* The truncation with the bound taken one too small.
Resize_oneShort(q, maxNum) ==
  IF Len(q) > maxNum - 1 /\ maxNum > 0 THEN SubSeq(q, 1, maxNum - 1)
  ELSE IF Len(q) > maxNum THEN SubSeq(q, 1, maxNum) ELSE q

\* if (result.size() > g_config->xref.maxNum) result.resize(maxNum);
Resize(q, maxNum) ==
  IF Len(q) > maxNum THEN SubSeq(q, 1, maxNum) ELSE q

\* ReplyOnce::operator()(result), the result kept in the reply.
ReplyOnce_call(reply, result, dbg) ==
  ReplyOnce_send(reply, [id |-> reply.id, kind |-> "result", code |-> "none",
                         message |-> <<>>, by |-> "replyLocationLink",
                         result |-> result], dbg)

\* ReplyOnce::replyLocationLink(result) on the channel reply.
replyLocationLink(reply, result, maxNum, linkSupport, dbg) ==
  LET cut == Resize(Unique(SortLinks(result)), maxNum)
  IN [result |-> cut,
      reply |-> IF linkSupport
                THEN ReplyOnce_call(reply, cut, dbg)
                ELSE ReplyOnce_call(reply,
                                    [k \in 1..Len(cut) |-> Location(cut[k])],
                                    dbg)]

\* The candidate lists of at most n links.
RECURSIVE LinkLists(_)
LinkLists(n) ==
  IF n = 0 THEN {<<>>}
  ELSE LET shorter == LinkLists(n - 1)
       IN shorter \cup { Append(q, x) : q \in {r \in shorter : Len(r) = n - 1},
                                        x \in Links }

\* A handler is about to call replyLocationLink on the channel that run made
\* for its request.
XrefInit ==
  /\ NoDispatch
  /\ NoHighlight
  /\ lookup = Off /\ occ = Off /\ proj = Off /\ hl = Off /\ ord = Off
  /\ \E q \in LinkLists(MaxCand), n \in 0..MaxNum, ls \in BOOLEAN,
        dbg \in BOOLEAN :
       xref = [pc |-> "call", candidates |-> q, result |-> q, maxNum |-> n,
               linkSupport |-> ls, assertBuild |-> dbg,
               reply |-> NewReplyOnce(1)]

ReplyLocationLink ==
  /\ xref.pc = "call"
  /\ \E r \in {replyLocationLink(xref.reply, xref.result, xref.maxNum,
                                 xref.linkSupport, xref.assertBuild)} :
       xref' = [xref EXCEPT !.pc = "done", !.result = r.result,
                            !.reply = r.reply]
  /\ UNCHANGED xrefRest

XrefNext == ReplyLocationLink

SpecXref == XrefInit /\ [][XrefNext]_vars

\* The distinct candidates of the call and the k-th least of them.
Distinct == {xref.candidates[k] : k \in 1..Len(xref.candidates)}
Least(k, S) == CHOOSE c \in S : Cardinality({x \in S : LinkLess(x, c)}) = k - 1
Min(a, b) == IF a <= b THEN a ELSE b

\* C11 (replyLocationLink): exactly one reply is sent; it holds the first
\* min(N, d) of the d distinct candidates in their natural order, as location
\* links when the client supports links and otherwise as as many plain
\* locations in the same order, none carrying a link-specific field.
C11_ReplyLocationLink ==
  (xref.pc = "done") =>
     \A cand \in {Distinct} : \A n \in {Min(xref.maxNum, Cardinality(cand))} :
       /\ Len(xref.reply.sent) = 1
       /\ ~xref.reply.aborted
       /\ \A out \in {xref.reply.sent[1].result} :
            /\ Len(out) = n
            /\ \A k \in 1..n :
                 IF xref.linkSupport
                 THEN out[k] = Least(k, cand)
                 ELSE /\ out[k] = Location(Least(k, cand))
                      /\ DOMAIN out[k] = {"uri", "range"}

\* C11 witness: five candidates, one of them an exact duplicate, a maximum of
\* three and no link support: three plain locations are sent.
C11_Witness ==
  /\ xref.pc = "done"
  /\ Len(xref.candidates) = 5
  /\ Cardinality(Distinct) = 4
  /\ xref.maxNum = 3
  /\ ~xref.linkSupport
  /\ Len(xref.reply.sent) = 1
  /\ Len(xref.reply.sent[1].result) = 3
  /\ xref.reply.sent[1].result[1] = [uri |-> "a.cc", range |-> 1]

\* ================== MessageHandler::findFile, findOrFail (lines 238-271)
\* db->files holds at most MaxFiles files.
MaxFiles == 2

\* The parts of the program other than findOrFail.
lookupRest == <<dispVars, hlVars, xref, occ, proj, hl, ord>>

Paths == {"a.cc", "A.cc"}
NoFile == -1
\* The null WorkingFile pointer.
NoWorkingFile == "nullptr"
FileIds == 0..(MaxFiles - 1)

\* lowerPathIfInsensitive(path): the path in lower case where the platform's
\* file names are case-insensitive, the path itself elsewhere.
lowerPathIfInsensitive(path, insensitive) ==
  IF insensitive /\ path = "A.cc" THEN "a.cc" ELSE path

\* wfiles->getFile(path): the working file opened under that path, if any.
getFile(wfiles, path) == IF path \in wfiles THEN path ELSE NoWorkingFile

\* MessageHandler::findFile taking every entry of name2file_id as indexed.
findFile_ignoresDef(db, path, insensitive) ==
  LET it == db.name2file_id[lowerPathIfInsensitive(path, insensitive)]
  IN IF it # NoFile THEN [ret |-> it, out_file_id |-> it]
     ELSE [ret |-> NoFile, out_file_id |-> -1]

\* MessageHandler::findFile(path, out_file_id)
findFile(db, path, insensitive) ==
  LET it == db.name2file_id[lowerPathIfInsensitive(path, insensitive)]
  IN IF it # NoFile /\ db.files[it + 1].def
     THEN [ret |-> it, out_file_id |-> it]
     ELSE [ret |-> NoFile, out_file_id |-> -1]

\* MessageHandler::findOrFail(path, reply, out_file_id)
findOrFail(st) ==
  LET wf == getFile(st.wfiles, st.path)
      found == findFile(st.db, st.path, st.insensitive)
  IN IF wf = NoWorkingFile
     THEN [st EXCEPT !.pc = "returned",
                     !.reply = notOpened(@, st.path, "findOrFail",
                                         st.assertBuild)]
     ELSE IF found.ret = NoFile
     THEN IF ~st.overdue
          THEN [st EXCEPT !.pc = "thrown", !.thrown = "NotIndexed",
                          !.out_file_id = found.out_file_id]
          ELSE [st EXCEPT !.pc = "returned",
                          !.out_file_id = found.out_file_id,
                          !.reply = ReplyOnce_error(@, "InvalidRequest",
                                                    <<"not indexed">>,
                                                    "findOrFail",
                                                    st.assertBuild)]
     ELSE [st EXCEPT !.pc = "returned", !.file = found.ret, !.wf = wf,
                     !.out_file_id = found.out_file_id]

\* The index: name2file_id (NoFile where a name has no entry) and, per file,
\* whether it has a definition.  Where file names are case-insensitive the
\* names are entered in lower case.
DBs(insensitive) ==
  { db \in [name2file_id : [Paths -> FileIds \cup {NoFile}],
            files : [1..MaxFiles -> [def : BOOLEAN]]] :
      insensitive => db.name2file_id["A.cc"] = NoFile }

\* A handler calls findOrFail on the channel of its request.
LookupInit ==
  /\ NoDispatch
  /\ NoHighlight
  /\ xref = Off /\ occ = Off /\ proj = Off /\ hl = Off /\ ord = Off
  /\ \E insensitive \in BOOLEAN :
       \E db \in DBs(insensitive), path \in Paths, wfiles \in SUBSET Paths,
          overdue \in BOOLEAN, dbg \in BOOLEAN :
         lookup = [pc |-> "call", path |-> path, wfiles |-> wfiles,
                   db |-> db, overdue |-> overdue,
                   insensitive |-> insensitive, assertBuild |-> dbg,
                   reply |-> NewReplyOnce(1), thrown |-> "none",
                   file |-> NoFile, wf |-> NoWorkingFile, out_file_id |-> NoFile]

FindOrFail ==
  /\ lookup.pc = "call"
  /\ lookup' = findOrFail(lookup)
  /\ UNCHANGED lookupRest

LookupNext == FindOrFail

SpecLookup == LookupInit /\ [][LookupNext]_vars

\* The path has an open working file; the path has an index entry with a
\* definition.
Opened == lookup.path \in lookup.wfiles
Indexed ==
  \E f \in FileIds :
    /\ lookup.db.name2file_id[lowerPathIfInsensitive(lookup.path,
                                                     lookup.insensitive)] = f
    /\ lookup.db.files[f + 1].def
NullPair == lookup.file = NoFile /\ lookup.wf = NoWorkingFile

\* C12 (findOrFail): a path that is not opened gets one InvalidRequest
\* "<path> is not opened" and a null pair, whatever the index holds; an
\* opened path without an index entry raises NotIndexed with no reply while
\* the server is not overdue and gets one InvalidRequest "not indexed" and a
\* null pair when it is; otherwise the pair is non-null and no reply is sent.
C12_FindOrFail ==
  (lookup.pc # "call") =>
     /\ ~Opened =>
          /\ lookup.pc = "returned" /\ NullPair
          /\ Len(lookup.reply.sent) = 1
          /\ lookup.reply.sent[1].code = "InvalidRequest"
          /\ lookup.reply.sent[1].message = <<lookup.path, " is not opened">>
     /\ (Opened /\ ~Indexed /\ ~lookup.overdue) =>
          /\ lookup.pc = "thrown" /\ lookup.thrown = "NotIndexed"
          /\ lookup.reply.sent = <<>>
     /\ (Opened /\ ~Indexed /\ lookup.overdue) =>
          /\ lookup.pc = "returned" /\ NullPair
          /\ Len(lookup.reply.sent) = 1
          /\ lookup.reply.sent[1].code = "InvalidRequest"
          /\ lookup.reply.sent[1].message = <<"not indexed">>
     /\ (Opened /\ Indexed) =>
          /\ lookup.pc = "returned"
          /\ lookup.file # NoFile /\ lookup.wf # NoWorkingFile
          /\ lookup.reply.sent = <<>>

\* C12 witness: an opened path whose index entry has no definition, on a
\* server that is not overdue: NotIndexed leaves findOrFail, nothing is sent.
C12_Witness ==
  /\ lookup.pc = "thrown"
  /\ Opened
  /\ lookup.db.name2file_id[lookup.path] # NoFile
  /\ lookup.reply.sent = <<>>

\* ========== emitSemanticHighlight: one occurrence (lines 292-381)
\* A symbol has at most MaxDefs definitions; index_lines has at most MaxLines
\* lines.
MaxDefs == 2
MaxLines == 2

\* The parts of the program other than the walk over symbol2refcnt.
occRest == <<dispVars, hlVars, xref, lookup, proj, hl, ord>>

\* Text is a sequence of characters.
Operator == <<"o", "p", "e", "r", "a", "t", "o", "r">>

\* The short names of the functions: operator==, operato, fo, fo<x>.
ShortNames ==
  { Operator \o <<"=", "=">>, SubSeq(Operator, 1, 7), <<"f", "o">>,
    <<"f", "o", "<", "x", ">">> }

\* The lines of the indexed text.
IndexLines ==
  { <<"f", "o">>, <<"x", "f", "o">>, <<"f">>, Operator \o <<"=", "=">> }

NoDef == [name |-> "none"]
\* What func.anyDef() gives: no definition, or one with its short name.
FuncDefs ==
  {NoDef} \cup
  [name : {"def"}, short_name : ShortNames, kind : {"Function", "Method"},
   storage : {"SC_None"}, parent_kind : {"Namespace"}]
\* The definitions of a type and of a variable.
TypeDefs ==
  [kind : {"Class", "Struct"}, storage : {"SC_None"}, spell : BOOLEAN,
   parent_kind : {"Namespace", "Class"}]
VarDefs ==
  [kind : {"Variable", "Macro"}, storage : {"SC_None", "SC_Static"},
   spell : BOOLEAN, parent_kind : {"Namespace", "Class"}]

\* The sequences of at most n elements of S.
RECURSIVE SeqsUpTo(_, _)
SeqsUpTo(S, n) ==
  IF n = 0 THEN {<<>>}
  ELSE LET shorter == SeqsUpTo(S, n - 1)
       IN shorter \cup { Append(q, x) : q \in {r \in shorter : Len(r) = n - 1},
                                        x \in S }

\* Pos and Range of the index (line, column).
Pos(line, column) == [line |-> line, column |-> column]
Range(start, end) == [start |-> start, end |-> end]

\* short_name.compare(0, 8, "operator") == 0, never true.
IsOperator_never(short_name) == FALSE

\* short_name.compare(0, 8, "operator") == 0: the first (at most) eight
\* characters of the name are "operator".
IsOperator(short_name) ==
  SubSeq(short_name, 1, IF Len(short_name) < 8 THEN Len(short_name) ELSE 8)
    = Operator

\* detailed_name.find('<'): the index of the first '<', counted from 0, or
\* the length of the name when there is none (npos cuts nothing).
RECURSIVE Find(_, _)
Find(name, from) ==
  IF from >= Len(name) THEN Len(name)
  ELSE IF name[from + 1] = "<" THEN from
  ELSE Find(name, from + 1)

\* detailed_name.substr(0, detailed_name.find('<'))
ConciseName(name) == SubSeq(name, 1, Find(name, 0))

\* The text check that compares only the characters the line still has.
NameIsThere_toLineEnd(line, start_col, concise_name) ==
  \A k \in 1..Len(concise_name) :
    start_col + k <= Len(line) => line[start_col + k] = concise_name[k]

\* start_col + concise_name.size() <= line.size() &&
\* line.compare(start_col, concise_name.size(), concise_name) == 0
NameIsThere(line, start_col, concise_name) ==
  /\ start_col + Len(concise_name) <= Len(line)
  /\ SubSeq(line, start_col + 1, start_col + Len(concise_name)) = concise_name

\* The loop over a definition list taking kind and storage from the first
\* definition only.
ScanDefs_firstOnly(defs, acc) ==
  IF defs = <<>> THEN acc
  ELSE [kind |-> Head(defs).kind, storage |-> Head(defs).storage,
        parent_kind |->
          IF \E k \in 1..Len(defs) : defs[k].spell
          THEN defs[CHOOSE k \in 1..Len(defs) :
                      defs[k].spell /\ \A l \in 1..(k - 1) : ~defs[l].spell]
                 .parent_kind
          ELSE acc.parent_kind]

\* for (auto &def : type.def / var.def) { kind = def.kind; storage = ...;
\*   if (def.spell) { parent_kind = def.parent_kind; break; } }
RECURSIVE ScanDefs(_, _)
ScanDefs(defs, acc) ==
  IF defs = <<>> THEN acc
  ELSE LET def == Head(defs)
           set == [acc EXCEPT !.kind = def.kind, !.storage = def.storage]
       IN IF def.spell THEN [set EXCEPT !.parent_kind = def.parent_kind]
          ELSE ScanDefs(Tail(defs), set)

\* kind, storage and parent_kind before the switch.
Unset == [kind |-> "Unknown", storage |-> "SC_None", parent_kind |-> "Unknown"]

\* The body of the loop for one occurrence, up to the end of the switch:
\* "continue" or the symbol's attributes and the (rewritten) range.
Switch(o) ==
  IF o.refcnt <= 0 THEN [go |-> "continue"]
  ELSE IF o.kind = "Func"
  THEN IF o.def = NoDef THEN [go |-> "continue"]
       ELSE IF IsOperator(o.def.short_name) THEN [go |-> "continue"]
       ELSE IF o.range.start.line >= Len(o.index_lines)
            THEN [go |-> "continue"]
       ELSE IF ~NameIsThere(o.index_lines[o.range.start.line + 1],
                            o.range.start.column,
                            ConciseName(o.def.short_name))
            THEN [go |-> "continue"]
       ELSE [go |-> "break",
             attr |-> [kind |-> o.def.kind, storage |-> o.def.storage,
                       parent_kind |-> o.def.parent_kind],
             range |-> Range(o.range.start,
                             Pos(o.range.start.line,
                                 o.range.start.column
                                   + Len(ConciseName(o.def.short_name))))]
  ELSE IF o.kind \in {"Type", "Var"}
  THEN [go |-> "break",
        attr |-> IF o.kind = "Type"
                 THEN [ScanDefs(o.defs, Unset) EXCEPT !.storage = "SC_None"]
                 ELSE ScanDefs(o.defs, Unset),
        range |-> o.range]
  ELSE [go |-> "continue"]

\* The occurrences of symbol2refcnt: a function, a type, a variable, or a
\* symbol of another kind.  Ranges have a valid start.
StartCols == 0..2
RecordedEnds == {Pos(0, 1), Pos(1, 3)}
FuncOccs ==
  [kind : {"Func"}, refcnt : {-1, 0, 1}, def : FuncDefs, defs : {<<>>},
   range : [start : [line : 0..MaxLines, column : StartCols],
            end : RecordedEnds],
   index_lines : SeqsUpTo(IndexLines, MaxLines)]
TypeOccs ==
  [kind : {"Type"}, refcnt : {-1, 0, 1}, def : {NoDef},
   defs : SeqsUpTo(TypeDefs, MaxDefs),
   range : {Range(Pos(0, 0), Pos(0, 1))}, index_lines : {<<>>}]
VarOccs ==
  [kind : {"Var"}, refcnt : {-1, 0, 1}, def : {NoDef},
   defs : SeqsUpTo(VarDefs, MaxDefs),
   range : {Range(Pos(0, 0), Pos(0, 1))}, index_lines : {<<>>}]
OtherOccs ==
  [kind : {"File", "Invalid"}, refcnt : {-1, 0, 1}, def : {NoDef},
   defs : {<<>>}, range : {Range(Pos(0, 0), Pos(0, 1))},
   index_lines : {<<>>}]

\* The walk is at one occurrence of the file.
OccInit ==
  /\ NoDispatch
  /\ NoHighlight
  /\ xref = Off /\ lookup = Off /\ proj = Off /\ hl = Off /\ ord = Off
  /\ \E o \in FuncOccs \cup TypeOccs \cup VarOccs \cup OtherOccs :
       occ = [pc |-> "switch", sym |-> o]

\* The switch skips the occurrence.
Skip ==
  /\ occ.pc = "switch"
  /\ Switch(occ.sym).go = "continue"
  /\ occ' = [occ EXCEPT !.pc = "skipped"]
  /\ UNCHANGED occRest

\* The occurrence leaves the switch, getLsRange gives its range in the
\* buffer and the range is pushed onto the symbol's entry of grouped_symbols.
Group ==
  /\ occ.pc = "switch"
  /\ \E sw \in {Switch(occ.sym)} :
       /\ sw.go = "break"
       /\ occ' = [pc |-> "grouped", sym |-> occ.sym,
                  symbol |-> [parentKind |-> sw.attr.parent_kind,
                              kind |-> sw.attr.kind,
                              storage |-> sw.attr.storage],
                  range |-> sw.range]
  /\ UNCHANGED occRest

\* The occurrence leaves the switch but getLsRange finds no place for its
\* range in the buffer: nothing is pushed.
NoLsRange ==
  /\ occ.pc = "switch"
  /\ \E sw \in {Switch(occ.sym)} :
       /\ sw.go = "break"
       /\ occ' = [pc |-> "dropped", sym |-> occ.sym, range |-> sw.range]
  /\ UNCHANGED occRest

OccNext == Skip \/ Group \/ NoLsRange

SpecOcc == OccInit /\ [][OccNext]_vars

\* -------------------------------------------------- occurrence claims
\* The name begins with the eight characters "operator".
BeginsWithOperator(name) ==
  /\ Len(name) >= 8
  /\ \A k \in 1..8 : name[k] = Operator[k]

\* The occurrence is of a function with a definition.
FuncWithDef == occ.sym.kind = "Func" /\ occ.sym.def # NoDef

\* C13 (operator-name filtering): a function occurrence whose definition's
\* short name begins with "operator" is skipped by the switch, whatever its
\* reference count and whatever the text holds: it contributes no range.
C13_OperatorFiltered ==
  (occ.pc # "switch" /\ FuncWithDef
     /\ BeginsWithOperator(occ.sym.def.short_name)) => occ.pc = "skipped"

\* C13 witness: operator== with a positive reference count, at a place where
\* the text reads operator==, is skipped.
C13_Witness ==
  /\ occ.pc = "skipped"
  /\ FuncWithDef
  /\ occ.sym.refcnt > 0
  /\ occ.sym.def.short_name = Operator \o <<"=", "=">>
  /\ occ.sym.range.start = Pos(0, 0)
  /\ occ.sym.index_lines = <<Operator \o <<"=", "=">>>>

\* The definitions of the list that carry a spelling location.
Spelled(defs) == {k \in 1..Len(defs) : defs[k].spell}
First(S) == CHOOSE k \in S : \A l \in S : k <= l

\* C16 as stated: for a type or variable occurrence with a non-empty
\* definition list the emitted kind (and storage, for variables) is that of
\* the first definition of the list, and the emitted parent kind is that of
\* the first definition with a spelling location, Unknown when none has one.
C16_KindOfFirstDefinition ==
  (occ.pc = "grouped" /\ occ.sym.kind \in {"Type", "Var"}
     /\ occ.sym.defs # <<>>) =>
    /\ occ.symbol.kind = occ.sym.defs[1].kind
    /\ occ.sym.kind = "Var" => occ.symbol.storage = occ.sym.defs[1].storage
    /\ occ.symbol.parentKind =
         IF Spelled(occ.sym.defs) = {} THEN "Unknown"
         ELSE occ.sym.defs[First(Spelled(occ.sym.defs))].parent_kind

\* The definition the loop stops at: the first with a spelling location, the
\* last of the list when none has one.
Deciding(defs) ==
  IF Spelled(defs) = {} THEN Len(defs) ELSE First(Spelled(defs))

\* C16 amended: the emitted kind (and storage, for variables) is that of the
\* first definition with a spelling location, or of the last definition when
\* none has one; the emitted parent kind is that of the first definition with
\* a spelling location, Unknown when none has one.
C16_KindOfDecidingDefinition ==
  (occ.pc = "grouped" /\ occ.sym.kind \in {"Type", "Var"}
     /\ occ.sym.defs # <<>>) =>
    /\ occ.symbol.kind = occ.sym.defs[Deciding(occ.sym.defs)].kind
    /\ occ.sym.kind = "Var" =>
         occ.symbol.storage = occ.sym.defs[Deciding(occ.sym.defs)].storage
    /\ occ.symbol.parentKind =
         IF Spelled(occ.sym.defs) = {} THEN "Unknown"
         ELSE occ.sym.defs[First(Spelled(occ.sym.defs))].parent_kind

\* C16 witness: a type whose first definition is a class without a spelling
\* location and whose second is a struct with one, in a namespace: the symbol
\* is emitted as a struct in a namespace.
C16_Witness ==
  /\ occ.pc = "grouped"
  /\ occ.sym.kind = "Type"
  /\ Len(occ.sym.defs) = 2
  /\ occ.sym.defs[1].kind = "Class" /\ ~occ.sym.defs[1].spell
  /\ occ.sym.defs[2].kind = "Struct" /\ occ.sym.defs[2].spell
  /\ occ.sym.defs[2].parent_kind = "Namespace"
  /\ occ.symbol.kind = "Struct"
  /\ occ.symbol.parentKind = "Namespace"

\* The characters of the name before its first '<'.
Concise(name) ==
  LET cut == {k \in 1..Len(name) : name[k] = "<"}
  IN IF cut = {} THEN name ELSE SubSeq(name, 1, First(cut) - 1)

\* The line of the occurrence's start exists and reads the concise name at
\* the start column, the whole of it.
NameAtStart ==
  /\ occ.sym.range.start.line < Len(occ.sym.index_lines)
  /\ \A line \in {occ.sym.index_lines[occ.sym.range.start.line + 1]},
        name \in {Concise(occ.sym.def.short_name)} :
       \A k \in 1..Len(name) :
         /\ occ.sym.range.start.column + k <= Len(line)
         /\ line[occ.sym.range.start.column + k] = name[k]

\* C18 (function-name check): a function occurrence leaves the switch only if
\* its start line exists in index_lines and reads the concise name at the
\* start column; its range is then on the start line, from the start column
\* to the start column plus the length of the concise name, whatever end the
\* index recorded; on a mismatch or a name running past the line end it is
\* skipped.
C18_NameCheck ==
  (occ.pc # "switch" /\ FuncWithDef) =>
    /\ occ.pc \in {"grouped", "dropped"} =>
         /\ NameAtStart
         /\ occ.range.start = occ.sym.range.start
         /\ occ.range.end =
              Pos(occ.sym.range.start.line,
                  occ.sym.range.start.column
                    + Len(Concise(occ.sym.def.short_name)))
    /\ ~NameAtStart => occ.pc = "skipped"

\* C18 witness: fo<x> at column 1 of the line "xfo", recorded as ending on
\* the next line, is grouped with the range [(0,1), (0,3)).
C18_Witness ==
  /\ occ.pc = "grouped"
  /\ FuncWithDef
  /\ occ.sym.def.short_name = <<"f", "o", "<", "x", ">">>
  /\ occ.sym.range = Range(Pos(0, 1), Pos(1, 3))
  /\ occ.sym.index_lines = <<<<"x", "f", "o">>>>
  /\ occ.range = Range(Pos(0, 1), Pos(0, 3))

\* ===== emitSemanticHighlight: offset projection and emission (422-469)
\* The buffer holds at most MaxBuf code points; the sweep left at most MaxOut
\* display ranges.
MaxBuf == 3
MaxOut == 2

\* The parts of the program other than the projection and the emission.
projRest == <<dispVars, hlVars, xref, lookup, occ, hl, ord>>

\* The code points of the buffer as UTF-8: a, line feed, and the euro sign.
LF == <<10>>
CodePoints == { <<97>>, LF, <<226, 130, 172>> }

\* buffer_content: the bytes of at most n code points.
RECURSIVE Buffers(_)
Buffers(n) ==
  IF n = 0 THEN {<<>>}
  ELSE LET shorter == Buffers(n - 1)
       IN shorter \cup { cp \o b : cp \in CodePoints, b \in shorter }

\* The positions of the display ranges.
ProjPositions == { Position(l, c) : l \in 0..1, c \in 0..2 }

\* The symbols of grouped_symbols, by slot.
ProjSlots == 1..2

\* The non-empty ranges between the positions.
ProjRanges ==
  { r \in { lsRange(a, b) : a, b \in ProjPositions } :
      PosLess(r.start, r.end) }

\* What the sweep leaves: at most n non-empty ranges, each starting where the
\* one before ended or later, every one owned by one symbol.
RECURSIVE Swept(_)
Swept(n) ==
  IF n = 0 THEN {<<>>}
  ELSE LET shorter == Swept(n - 1)
       IN shorter \cup
          UNION { { Append(q, [range |-> r, symbol |-> sl]) :
                      r \in { y \in ProjRanges :
                                q = <<>>
                                \/ ~PosLess(y.start, q[Len(q)].range.end) },
                      sl \in ProjSlots } :
                  q \in {x \in shorter : Len(x) = n - 1} }

\* The ranges of q owned by symbol sl, in order.
RECURSIVE RangesOf(_, _)
RangesOf(q, sl) ==
  IF q = <<>> THEN <<>>
  ELSE (IF Head(q).symbol = sl THEN <<Head(q).range>> ELSE <<>>)
       \o RangesOf(Tail(q), sl)

\* scratch: every range of every symbol, symbol by symbol.
RECURSIVE Scratch(_, _)
Scratch(syms, sl) ==
  IF sl > Len(syms) THEN <<>>
  ELSE [k \in 1..Len(syms[sl].lsRanges) |->
          [first |-> syms[sl].lsRanges[k], second |-> sl]]
       \o Scratch(syms, sl + 1)

\* The entries of a vector.
Elems(q) == {q[k] : k \in 1..Len(q)}

\* std::sort(scratch, l.first.start < r.first.start): any arrangement in
\* which no entry starts before one placed ahead of it.
RECURSIVE SortsByStart(_)
SortsByStart(S) ==
  IF S = {} THEN {<<>>}
  ELSE UNION { { <<e>> \o t : t \in SortsByStart(S \ {e}) } :
               e \in { m \in S :
                       \A o \in S : ~PosLess(o.first.start, m.first.start) } }

\* The first loop of mov: to the start of the line.
RECURSIVE ToLine(_, _, _)
ToLine(buf, cur, line) ==
  IF cur.l < line /\ cur.i < Len(buf)
  THEN ToLine(buf,
              [cur EXCEPT !.l = IF buf[cur.i + 1] = 10 THEN @ + 1 ELSE @,
                          !.p = IF buf[cur.i + 1] < 128
                                   \/ 192 <= buf[cur.i + 1]
                                THEN @ + 1 ELSE @,
                          !.i = @ + 1],
              line)
  ELSE cur

\* while (i < buf.size() && 128 <= buf[i] && buf[i] < 192) i++;
RECURSIVE SkipContinuation(_, _)
SkipContinuation(buf, i0) ==
  IF i0 < Len(buf) /\ buf[i0 + 1] >= 128 /\ buf[i0 + 1] < 192
  THEN SkipContinuation(buf, i0 + 1) ELSE i0

\* The second loop of mov with the emitted count following the byte cursor.
ToColumn_bytes(buf, cur, col) ==
  LET RECURSIVE Walk(_)
      Walk(k) ==
        IF k.c < col /\ k.i < Len(buf) /\ buf[k.i + 1] # 10
        THEN Walk([k EXCEPT !.c = @ + 1,
                            !.i = IF buf[k.i + 1] >= 128
                                  THEN SkipContinuation(buf, k.i + 1)
                                  ELSE k.i + 1,
                            !.p = @ + (IF buf[k.i + 1] >= 128
                                       THEN SkipContinuation(buf, k.i + 1)
                                       ELSE k.i + 1) - k.i])
        ELSE k
  IN Walk(cur)

\* The second loop of mov: to the column, one code point at a time.
RECURSIVE ToColumn(_, _, _)
ToColumn(buf, cur, col) ==
  IF cur.c < col /\ cur.i < Len(buf) /\ buf[cur.i + 1] # 10
  THEN ToColumn(buf,
                [cur EXCEPT !.c = @ + 1,
                            !.p = @ + 1,
                            !.i = IF buf[cur.i + 1] >= 128
                                  THEN SkipContinuation(buf, cur.i + 1)
                                  ELSE cur.i + 1],
                col)
  ELSE cur

\* mov(line, col): the cursor (l, c, i, p) after the move and whether the
\* move fell short (the lambda's return value).
mov(buf, cur, line, col) ==
  LET atLine == ToLine(buf, IF cur.l < line THEN [cur EXCEPT !.c = 0] ELSE cur,
                       line)
  IN IF atLine.l < line THEN [cur |-> atLine, short |-> TRUE]
     ELSE LET atCol == ToColumn(buf, atLine, col)
          IN [cur |-> atCol, short |-> atCol.c < col]

\* for (auto &entry : scratch) ...: the offset pairs pushed onto the symbols.
RECURSIVE Convert(_, _, _, _)
Convert(buf, scratch, cur, ranges) ==
  IF scratch = <<>> THEN ranges
  ELSE LET r == Head(scratch).first
           m1 == mov(buf, cur, r.start.line, r.start.character)
       IN IF m1.short THEN Convert(buf, Tail(scratch), m1.cur, ranges)
          ELSE LET m2 == mov(buf, m1.cur, r.end.line, r.end.character)
               IN IF m2.short
                  THEN Convert(buf, Tail(scratch), m2.cur, ranges)
                  ELSE Convert(buf, Tail(scratch), m2.cur,
                               [ranges EXCEPT ![Head(scratch).second] =
                                  Append(@, <<m1.cur.p, m2.cur.p>>)])

\* The emission filter that lets every symbol through.
Emitted_all(syms) == {sl \in 1..Len(syms) : TRUE}

\* if (entry.second.ranges.size() || entry.second.lsRanges.size())
Emitted(syms) ==
  {sl \in 1..Len(syms) : syms[sl].ranges # <<>> \/ syms[sl].lsRanges # <<>>}

\* The sweep is over: the symbols hold their display ranges.
ProjInit ==
  /\ NoDispatch
  /\ NoHighlight
  /\ xref = Off /\ lookup = Off /\ occ = Off /\ hl = Off /\ ord = Off
  /\ \E buf \in Buffers(MaxBuf), q \in Swept(MaxOut), mode \in BOOLEAN :
       proj = [pc |-> "swept", buf |-> buf, lsRangesMode |-> mode,
               swept |-> [sl \in ProjSlots |-> RangesOf(q, sl)],
               symbols |-> [sl \in ProjSlots |->
                              [ranges |-> <<>>, lsRanges |-> RangesOf(q, sl)]],
               params |-> <<>>]

\* if (!g_config->highlight.lsRanges) { ... }: lsRanges are cleared and the
\* offset pairs computed in one forward scan of the buffer.
Project ==
  /\ proj.pc = "swept"
  /\ ~proj.lsRangesMode
  /\ \E scratch \in SortsByStart(Elems(Scratch(proj.symbols, 1))) :
       proj' = [proj EXCEPT
                  !.pc = "projected",
                  !.symbols =
                     LET pairs == Convert(proj.buf, scratch,
                                          [l |-> 0, c |-> 0, i |-> 0, p |-> 0],
                                          [sl \in ProjSlots |-> <<>>])
                     IN [sl \in ProjSlots |->
                           [ranges |-> pairs[sl], lsRanges |-> <<>>]]]
  /\ UNCHANGED projRest

\* The symbols with a range are moved into params.symbols and the
\* notification is sent.
Emit ==
  /\ \/ proj.pc = "projected"
     \/ proj.pc = "swept" /\ proj.lsRangesMode
  /\ proj' = [proj EXCEPT
                !.pc = "done",
                !.params = [sl \in Emitted(proj.symbols) |-> proj.symbols[sl]]]
  /\ UNCHANGED projRest

ProjNext == Project \/ Emit

SpecProj == ProjInit /\ [][ProjNext]_vars

\* ------------------------------------------ projection and emission claims
\* Byte b begins a code point (it is not a continuation byte).
Begins(b) == b < 128 \/ 192 <= b

\* The bytes of the buffer holding a line feed (counted from 1).
LineFeeds(buf) == {j \in 1..Len(buf) : buf[j] = 10}

\* The line exists in the buffer: enough line feeds come before it.
HasLine(buf, line) == Cardinality(LineFeeds(buf)) >= line

\* The byte offset at which the line starts and the one at which it ends
\* (the offset of its line feed, or the size of the buffer).
LineBegin(buf, line) ==
  IF line = 0 THEN 0
  ELSE CHOOSE j \in LineFeeds(buf) :
         Cardinality({k \in LineFeeds(buf) : k <= j}) = line
LineEnd(buf, line) ==
  LET later == {j \in LineFeeds(buf) : j > LineBegin(buf, line)}
  IN IF later = {} THEN Len(buf)
     ELSE (CHOOSE j \in later : \A k \in later : j <= k) - 1

\* The byte offsets of the code points of the line, in the line.
PointsOf(buf, line) ==
  {j \in LineBegin(buf, line)..(LineEnd(buf, line) - 1) : Begins(buf[j + 1])}

\* The position is in the buffer: its line exists and has at least that many
\* code points.
Reachable(buf, pos) ==
  /\ HasLine(buf, pos.line)
  /\ pos.character <= Cardinality(PointsOf(buf, pos.line))

\* The byte offset of a reachable position.
ByteOffset(buf, pos) ==
  LET pts == PointsOf(buf, pos.line)
  IN IF pos.character = Cardinality(pts) THEN LineEnd(buf, pos.line)
     ELSE CHOOSE j \in pts : Cardinality({k \in pts : k < j}) = pos.character

\* The number of code points before a reachable position.
CodePointOffset(buf, pos) ==
  Cardinality({j \in 1..ByteOffset(buf, pos) : Begins(buf[j])})

\* The position n code points into the buffer: the line feeds before it give
\* the line, the code points since the last of them the column.
PositionAt(buf, n) ==
  LET begs == {j \in 1..Len(buf) : Begins(buf[j])}
      before == {j \in begs : Cardinality({k \in begs : k < j}) < n}
      feeds == {j \in before : buf[j] = 10}
  IN Position(Cardinality(feeds),
              Cardinality({j \in before : \A f \in feeds : f < j}))

\* The display ranges of symbol sl whose two ends are both in the buffer.
RECURSIVE ReachableRanges(_, _)
ReachableRanges(buf, rs) ==
  IF rs = <<>> THEN <<>>
  ELSE (IF Reachable(buf, Head(rs).start) /\ Reachable(buf, Head(rs).end)
        THEN <<Head(rs)>> ELSE <<>>) \o ReachableRanges(buf, Tail(rs))

\* C14 as stated: in offset mode the pair emitted for a display range with
\* reachable ends is the pair of byte offsets of its start and its end.
C14_ByteOffsets ==
  (proj.pc = "projected") =>
     \A sl \in ProjSlots :
       \A rs \in {ReachableRanges(proj.buf, proj.swept[sl])} :
         /\ Len(proj.symbols[sl].ranges) = Len(rs)
         /\ \A k \in 1..Len(rs) :
              proj.symbols[sl].ranges[k] =
                <<ByteOffset(proj.buf, rs[k].start),
                  ByteOffset(proj.buf, rs[k].end)>>

\* C14 amended: in offset mode every display range with reachable ends gets
\* one pair, the numbers of code points before its start and before its end
\* (a multi-byte code point counts once); counting that many code points
\* into the buffer gives back the line and column of either end.
C14_CodePointOffsets ==
  (proj.pc = "projected") =>
     \A sl \in ProjSlots :
       \A rs \in {ReachableRanges(proj.buf, proj.swept[sl])} :
         /\ Len(proj.symbols[sl].ranges) = Len(rs)
         /\ \A k \in 1..Len(rs) :
              /\ proj.symbols[sl].ranges[k] =
                   <<CodePointOffset(proj.buf, rs[k].start),
                     CodePointOffset(proj.buf, rs[k].end)>>
              /\ PositionAt(proj.buf, proj.symbols[sl].ranges[k][1])
                   = rs[k].start
              /\ PositionAt(proj.buf, proj.symbols[sl].ranges[k][2])
                   = rs[k].end

\* C14 witness: in the buffer "€a" the range [(0,1), (0,2)) becomes (1, 2):
\* the euro sign is three bytes and one code point.
C14_Witness ==
  /\ proj.pc = "projected"
  /\ proj.buf = <<226, 130, 172, 97>>
  /\ proj.swept[1] = <<lsRange(Position(0, 1), Position(0, 2))>>
  /\ proj.symbols[1].ranges = <<<<1, 2>>>>

\* C20 (emitted symbols): every symbol of the notification has a range; in
\* offset mode its offset pairs are non-empty and its lsRanges empty, in
\* line/column mode its lsRanges are non-empty and its offset pairs empty;
\* and exactly the symbols left with a range are emitted.
C20_EmittedSymbols ==
  (proj.pc = "done") =>
     /\ \A sl \in DOMAIN proj.params :
          IF proj.lsRangesMode
          THEN /\ proj.params[sl].lsRanges # <<>>
               /\ proj.params[sl].ranges = <<>>
          ELSE /\ proj.params[sl].ranges # <<>>
               /\ proj.params[sl].lsRanges = <<>>
     /\ \A sl \in ProjSlots :
          sl \in DOMAIN proj.params <=>
            IF proj.lsRangesMode THEN proj.swept[sl] # <<>>
            ELSE ReachableRanges(proj.buf, proj.swept[sl]) # <<>>

\* C20 witness: in offset mode one symbol's only range lies past the end of
\* the buffer and the other symbol's range converts: only the other symbol is
\* emitted.
C20_Witness ==
  /\ proj.pc = "done"
  /\ ~proj.lsRangesMode
  /\ proj.buf = <<97, 97>>
  /\ proj.swept[1] = <<lsRange(Position(0, 0), Position(0, 2))>>
  /\ proj.swept[2] = <<lsRange(Position(1, 0), Position(1, 1))>>
  /\ DOMAIN proj.params = {1}
  /\ proj.params[1].ranges = <<<<0, 2>>>>

\* ================================ Pos and Range (lines 483-535)
\* Lines run from 0 to MaxPosLine in the values compared.
MaxPosLine == 1

\* The parts of the program other than the comparisons.
ordRest == <<dispVars, hlVars, xref, lookup, occ, proj, hl>>

\* Pos values: column -1 is the invalid position.
PosValues == { Pos(l, c) : l \in 0..MaxPosLine, c \in {-1, 0} }
RangeValues == { Range(a, b) : a \in PosValues, b \in PosValues }

\* Pos::operator==
Pos_eq(a, o) == a.line = o.line /\ a.column = o.column

\* Pos::operator< with the columns compared by <=.
Pos_less_orEqual(a, o) ==
  IF a.line # o.line THEN a.line < o.line ELSE a.column <= o.column

\* Pos::operator<
Pos_less(a, o) ==
  IF a.line # o.line THEN a.line < o.line ELSE a.column < o.column

\* Range::operator==
Range_eq(a, o) == Pos_eq(a.start, o.start) /\ Pos_eq(a.end, o.end)

\* Range::operator<
Range_less(a, o) ==
  IF ~Pos_eq(a.start, o.start) THEN Pos_less(a.start, o.start)
  ELSE Pos_less(a.end, o.end)

\* The comparisons of three positions among themselves.
PosComparisons(x, y, z) ==
  [xx |-> Pos_less(x, x), xy |-> Pos_less(x, y), yx |-> Pos_less(y, x),
   yz |-> Pos_less(y, z), xz |-> Pos_less(x, z), eq_xy |-> Pos_eq(x, y)]

\* The comparisons of three ranges among themselves.
RangeComparisons(x, y, z) ==
  [xx |-> Range_less(x, x), xy |-> Range_less(x, y), yx |-> Range_less(y, x),
   yz |-> Range_less(y, z), xz |-> Range_less(x, z), eq_xy |-> Range_eq(x, y)]

\* Three ranges are at hand.
OrdInit ==
  /\ NoDispatch
  /\ NoHighlight
  /\ xref = Off /\ lookup = Off /\ occ = Off /\ proj = Off /\ hl = Off
  /\ \E a \in RangeValues, b \in RangeValues, c \in RangeValues :
       ord = [pc |-> "given", a |-> a, b |-> b, c |-> c]

\* The ranges and their start positions are compared.
Compare ==
  /\ ord.pc = "given"
  /\ ord' = [pc |-> "compared", a |-> ord.a, b |-> ord.b, c |-> ord.c,
             pos |-> PosComparisons(ord.a.start, ord.b.start, ord.c.start),
             range |-> RangeComparisons(ord.a, ord.b, ord.c)]
  /\ UNCHANGED ordRest

OrdNext == Compare

SpecOrd == OrdInit /\ [][OrdNext]_vars

\* The comparisons r are those of a strict total order that agrees with
\* equality: irreflexive, transitive, exactly one of x<y, x==y, y<x.
StrictTotal(r) ==
  /\ ~r.xx
  /\ (r.xy /\ r.yz) => r.xz
  /\ (r.xy /\ ~r.eq_xy /\ ~r.yx)
       \/ (~r.xy /\ r.eq_xy /\ ~r.yx)
       \/ (~r.xy /\ ~r.eq_xy /\ r.yx)

\* x comes before y by line, then by column.
LineThenColumn(x, y) ==
  x.line < y.line \/ (x.line = y.line /\ x.column < y.column)

\* C15 (Pos and Range order): Pos::operator< is a strict total order that
\* agrees with Pos::operator== and orders by line, then column; Range's
\* operator< is a strict total order that agrees with Range::operator== and
\* orders by start, then end.
C15_StrictTotalOrders ==
  (ord.pc = "compared") =>
     /\ StrictTotal(ord.pos)
     /\ ord.pos.eq_xy <=> (ord.a.start = ord.b.start)
     /\ ord.pos.xy <=> LineThenColumn(ord.a.start, ord.b.start)
     /\ StrictTotal(ord.range)
     /\ ord.range.eq_xy <=> (ord.a = ord.b)
     /\ ord.range.xy <=>
          \/ LineThenColumn(ord.a.start, ord.b.start)
          \/ (ord.a.start = ord.b.start
                /\ LineThenColumn(ord.a.end, ord.b.end))

\* C15 witness: two ranges with the same start, ordered by their ends, and a
\* third after both.
C15_Witness ==
  /\ ord.pc = "compared"
  /\ ord.a = Range(Pos(0, 0), Pos(0, -1))
  /\ ord.b = Range(Pos(0, 0), Pos(1, 0))
  /\ ord.c = Range(Pos(1, -1), Pos(0, 0))
  /\ ord.range.xy /\ ord.range.yz /\ ord.range.xz
  /\ ord.pos.eq_xy

\* ============== the sweep over two symbols of one kind and one index
\* A type and a variable, both without a definition (kind Unknown = 0), the
\* type at index 0 of db->types and the variable at index 0 of db->vars.
TieTable ==
  << [Kind |-> "Type", kind |-> 0, id |-> 0],
     [Kind |-> "Var", kind |-> 0, id |-> 0] >>

TieInit ==
  /\ NoDispatch
  /\ symbols = TieTable
  /\ hpc = "collect"
  /\ lsRanges = [s \in Slots |-> <<>>]
  /\ collected = [s \in Slots |-> <<>>]
  /\ events = <<>>
  /\ sorted = <<>>
  /\ i = 0
  /\ top = 0
  /\ deleted = <<>>
  /\ NoAux

SpecTie == TieInit /\ [][HLNext]_vars

\* No two distinct events of the sorted vector compare as equivalent.
NoEquivalentEvents ==
  \A j, k \in 1..Len(sorted) :
    j # k => EventLess(sorted[j], sorted[k]) \/ EventLess(sorted[k], sorted[j])

\* Whatever arrangement the sort could have left, the sweep gives every
\* symbol the ranges it has now.
AttributionFixed ==
  \A srt \in Sorts(EventsOf(collected)) :
    SweepLoop([events |-> srt, i |-> 0, top |-> 0,
               deleted |-> [k \in 1..NumRanges(collected) |-> 0],
               lsRanges |-> [s \in Slots |-> <<>>]]).lsRanges = lsRanges

\* C17 as stated: the order of the sweep events is total, so that no two
\* distinct events are equivalent and the ranges every symbol gets do not
\* depend on where the sort puts tied events.
C17_DeterministicOrder ==
  (hpc = "done") => NoEquivalentEvents /\ AttributionFixed

\* ============ emitSemanticHighlight: the skip decision (lines 282-288)
\* emitSemanticHighlight is called at most MaxCalls times; a buffer holds at
\* most MaxSize bytes.
MaxCalls == 3
MaxSize == 2

\* The parts of the program other than the calls of emitSemanticHighlight.
hlRest == <<dispVars, hlVars, xref, lookup, occ, proj, ord>>

\* The files highlighted and the views of the index handed to a call.
HlPaths == {"a.cc", "b.cc"}
IndexViews == {"view1", "view2"}

\* g_config->highlight: the size cutoff, the allow and deny lists and the
\* range-mode flag, set at startup and read-only afterwards.
Configs ==
  [largeFileSize : 1..MaxSize, whitelist : SUBSET HlPaths,
   blacklist : SUBSET HlPaths, lsRanges : BOOLEAN]

\* GroupMatch(whitelist, blacklist): the matcher of the two lists.
GroupMatch(whitelist, blacklist) ==
  [constructed |-> TRUE, whitelist |-> whitelist, blacklist |-> blacklist]

\* GroupMatch::matches(path): allowed outright, or not denied.
matches(m, path) == path \in m.whitelist \/ path \notin m.blacklist

\* The function-local static before the first call.
NotConstructed == [constructed |-> FALSE, whitelist |-> {}, blacklist |-> {}]

\* A static that is built anew from the path of every call.
StaticMatch_perPath(match, config, path) ==
  IF ~match.constructed
  THEN GroupMatch(config.whitelist, config.blacklist)
  ELSE GroupMatch(match.whitelist, match.blacklist \cup {path})

\* static GroupMatch match(g_config->highlight.whitelist, ...blacklist):
\* constructed by the first call that reaches it, kept by every later one.
StaticMatch(match, config, path) ==
  IF ~match.constructed
  THEN GroupMatch(config.whitelist, config.blacklist)
  ELSE match

\* The notification of a call that is not skipped: a function of the file,
\* its index view and buffer, and the range mode.
Highlight(in, config) ==
  [method |-> "$ccls/publishSemanticHighlight", uri |-> in.path,
   view |-> in.view, size |-> in.size, lsRanges |-> config.lsRanges]

Skipped == [method |-> "none"]

\* emitSemanticHighlight(db, wfile, file) with the static match as it stands.
emitSemanticHighlight(match, config, in) ==
  LET m == StaticMatch(match, config, in.path)
  IN [match |-> m,
      out |-> IF in.size > config.largeFileSize \/ ~matches(m, in.path)
              THEN Skipped
              ELSE Highlight(in, config)]

\* The server has started: the configuration is set, nothing was highlighted.
HlInit ==
  /\ NoDispatch
  /\ NoHighlight
  /\ xref = Off /\ lookup = Off /\ occ = Off /\ proj = Off /\ ord = Off
  /\ \E config \in Configs :
       hl = [pc |-> "started", config |-> config, match |-> NotConstructed,
             calls |-> 0]

\* A file-open or file-change handler calls emitSemanticHighlight.
EmitSemanticHighlight ==
  /\ hl.pc \in {"started", "returned"}
  /\ hl.calls < MaxCalls
  /\ \E in \in [path : HlPaths, size : 0..MaxSize, view : IndexViews] :
       \E r \in {emitSemanticHighlight(hl.match, hl.config, in)} :
         hl' = [pc |-> "returned", config |-> hl.config, match |-> r.match,
                calls |-> hl.calls + 1, in |-> in, out |-> r.out]
  /\ UNCHANGED hlRest

HlNext == EmitSemanticHighlight

SpecSkip == HlInit /\ [][HlNext]_vars

\* What a call gives when nothing but its own inputs and the configuration
\* in force is looked at.
Expected(in, config) ==
  IF \/ in.size > config.largeFileSize
     \/ ~(in.path \in config.whitelist \/ in.path \notin config.blacklist)
  THEN Skipped
  ELSE Highlight(in, config)

BuildEvents ==
  /\ hpc = "collect"
  /\ \E srt \in Sorts(EventsOf(lsRanges)) :
       /\ sorted' = srt
       /\ events' = srt
       /\ hpc' = IF Len(srt) = 0 THEN "done" ELSE "sweep"
  /\ i' = 0
  /\ top' = 0
  /\ deleted' = [k \in 1..NumRanges(lsRanges) |-> 0]
  /\ lsRanges' = [s \in Slots |-> <<>>]
  /\ collected' = lsRanges
  /\ UNCHANGED symbols
  /\ UNCHANGED dispVars
  /\ UNCHANGED auxVars

\* The body of the loop runs once, for events[i], and i++.
SweepStep ==
  /\ hpc = "sweep"
  /\ i < Len(events)
  /\ \E nxt \in {SweepIter([events |-> events, i |-> i, top |-> top,
                            deleted |-> deleted, lsRanges |-> lsRanges])} :
       /\ events' = nxt.events
       /\ i' = nxt.i
       /\ top' = nxt.top
       /\ deleted' = nxt.deleted
       /\ lsRanges' = nxt.lsRanges
       /\ hpc' = IF nxt.i = Len(events) THEN "done" ELSE "sweep"
  /\ UNCHANGED <<sorted, collected, symbols>>
  /\ UNCHANGED dispVars
  /\ UNCHANGED auxVars

SweepNext == AddRange \/ BuildEvents \/ SweepStep

\* The loop is followed over the two symbols of one kind and one index, where
\* the sort may leave equivalent events in either order.
SpecSweep == TieInit /\ [][SweepNext]_vars

\* The sweep loop is running or has run.
InSweep == hpc \in {"sweep", "done"} /\ sorted # <<>>

\* events[0..top) holds open events of the collected ranges.
StackOpen ==
  \A t \in 1..top :
    /\ events[t].id >= 0
    /\ events[t].id < Len(deleted)
    /\ \E k \in 1..Len(sorted) : sorted[k] = events[t]

\* No event from events[i-1] on has been written over.
UnprocessedIntact ==
  \A k \in 1..Len(sorted) : k >= i => events[k] = sorted[k]

\* The accesses of the iteration about to run are within bounds: the flags
\* read while popping, the flag set by a deletion event, the slot pushed to.
NextAccessesInBounds ==
  (i < Len(events)) =>
    /\ \A t \in 1..top : events[t].id \in 0..(Len(deleted) - 1)
    /\ events[i + 1].id < 0 => Compl(events[i + 1].id) \in 0..(Len(deleted) - 1)
    /\ \A t \in {PopDeleted(events, top, deleted)} : 0 <= t /\ t <= i

\* C21 (in-place stack safety): at every iteration 0 <= top <= i, the stack
\* holds open events with ids of collected ranges, no event at events[i-1] or
\* later has been written over, and every deleted[] access is within bounds.
C21_StackSafety ==
  InSweep =>
    /\ 0 <= top /\ top <= i
    /\ Len(deleted) = NumRanges(collected)
    /\ StackOpen
    /\ UnprocessedIntact
    /\ NextAccessesInBounds

\* C21 witness: mid-loop, with two open events stacked, a closed range's
\* flag set, and an earlier slot of events already reused by a push.
C21_Witness ==
  /\ hpc = "sweep"
  /\ top = 2
  /\ top < i
  /\ events # sorted
  /\ \E k \in 1..Len(deleted) : deleted[k] = 1

====
